---- MODULE Spec2Model ----
(***************************************************************************)
(* Status propagation of the work-api controllers: the level-triggered     *)
(* StatusSyncController (syncAllWorks / syncWork), the edge-triggered      *)
(* StatusFeedbackReconciler (Reconcile), the condition aggregator and the  *)
(* status reader, against a hub record stored with optimistic concurrency. *)
(***************************************************************************)
EXTENDS Integers, Sequences, FiniteSets, TLC

VARIABLES
    aggGeneration,   \* aggregateManifestConditions: argument generation
    aggManifests,    \* aggregateManifestConditions: argument manifests
    aggResult,       \* aggregateManifestConditions: returned condition (<<>> before the call)
    store,           \* the hub record (Work) as persisted: resourceVersion, generation, spec, status
    spoke,           \* per manifest ordinal: what resolving and fetching its resource yields
    spokeChanges,    \* number of changes the spoke resources have gone through
    sync,            \* StatusSyncController: position and locals of syncAllWorks / syncWork
    fb,              \* StatusFeedbackReconciler: position and locals of Reconcile
    writes,          \* the resourceVersions the accepted status writes were computed from, in order
    persisted,       \* per controller: resourceVersion its last accepted write produced, and the
                     \* spoke epoch all fetches of that pass were made in (-1 if they span a change)
    readObj,         \* status reader: argument obj
    readRules,       \* status reader: the rule list of the manifest
    readResult,      \* status reader: the call made and what it returned (<<>> before the call)
    works,           \* sweep: the records of the hub, in the order List returns them
    sweep,           \* sweep: position and locals of syncAllWorks
    quietPasses,     \* sweep: per record and manifest ordinal, the consecutive passes without a change
    cancelled        \* sweep: the process was told to shut down

aggVars == <<aggGeneration, aggManifests, aggResult>>
sysVars == <<store, spoke, spokeChanges, sync, fb, writes, persisted>>
readVars == <<readObj, readRules, readResult>>
sweepVars == <<works, sweep, quietPasses, cancelled>>

vars == <<aggGeneration, aggManifests, aggResult, store, spoke, spokeChanges, sync, fb, writes,
          persisted, readObj, readRules, readResult, works, sweep, quietPasses, cancelled>>

----------------------------------------------------------------------------
(* Bounds of the model *)

MaxAggManifests == 3
MaxGeneration == 2
MaxSpokeChanges == 1

----------------------------------------------------------------------------
(* Condition types, statuses *)

statusSyncConditionType == "StatusSynced"
resourceAvailableConditionType == "Available"
statusFeedbackConditionType == "StatusFeedbackSynced"
appliedConditionType == "Applied"

ConditionTrue == "True"
ConditionFalse == "False"
ConditionUnknown == "Unknown"
ConditionStatuses == {ConditionTrue, ConditionFalse, ConditionUnknown}

\* fmt.Sprintf: the formatted text, kept as the sequence of its pieces;
\* a %d operand is rendered in decimal.
Sprintf(pieces) == pieces
Dec(n) == ToString(n)

\* metav1.Condition; lastTransitionTime 0 is the zero time.
Condition(type, status, reason, message, observedGeneration) ==
    [type |-> type, status |-> status, reason |-> reason, message |-> message,
     observedGeneration |-> observedGeneration, lastTransitionTime |-> 0]

\* workv1alpha1.ManifestCondition
ManifestCondition(identifier, conditions, syncValues, feedbackValues) ==
    [identifier |-> identifier, conditions |-> conditions,
     statusSync |-> syncValues, statusFeedbacks |-> feedbackValues]

----------------------------------------------------------------------------
(* aggregateManifestConditions *)

RECURSIVE CountInConditionsAnyType(_, _)
\* variant: the type of the condition is not looked at
CountInConditionsAnyType(conditions, status) ==
    IF conditions = <<>> THEN 0
    ELSE (IF Head(conditions).status = status THEN 1 ELSE 0)
         + CountInConditionsAnyType(Tail(conditions), status)

RECURSIVE CountInConditions(_, _)
\* the inner loop: conditions of type Available with the given status
CountInConditions(conditions, status) ==
    IF conditions = <<>> THEN 0
    ELSE (IF Head(conditions).type = resourceAvailableConditionType
             /\ Head(conditions).status = status THEN 1 ELSE 0)
         + CountInConditions(Tail(conditions), status)

RECURSIVE CountAvailable(_, _)
\* the outer loop over manifests
CountAvailable(manifests, status) ==
    IF manifests = <<>> THEN 0
    ELSE CountInConditions(Head(manifests).conditions, status)
         + CountAvailable(Tail(manifests), status)

\* variant: the Unknown case is tested before the False case
aggregateUnknownFirst(generation, manifests) ==
    LET available == CountAvailable(manifests, ConditionTrue)
        unavailable == CountAvailable(manifests, ConditionFalse)
        unknown == CountAvailable(manifests, ConditionUnknown)
    IN  IF unknown > 0 THEN
            Condition(resourceAvailableConditionType, ConditionUnknown, "ResourcesStatusUnknown",
                      Sprintf(<<Dec(unknown), " of ", Dec(Len(manifests)),
                                " resources have unknown status">>),
                      generation)
        ELSE IF unavailable > 0 THEN
            Condition(resourceAvailableConditionType, ConditionFalse, "ResourcesNotAvailable",
                      Sprintf(<<Dec(unavailable), " of ", Dec(Len(manifests)),
                                " resources are not available">>),
                      generation)
        ELSE IF available = 0 THEN
            Condition(resourceAvailableConditionType, ConditionUnknown, "ResourcesStatusUnknown",
                      Sprintf(<<"cannot get any available resource">>),
                      generation)
        ELSE
            Condition(resourceAvailableConditionType, ConditionTrue, "ResourcesAvailable",
                      Sprintf(<<"All resources are available">>),
                      generation)

\* variant: the total in the messages is the number of counted conditions
aggregateTotalCounted(generation, manifests) ==
    LET available == CountAvailable(manifests, ConditionTrue)
        unavailable == CountAvailable(manifests, ConditionFalse)
        unknown == CountAvailable(manifests, ConditionUnknown)
        total == available + unavailable + unknown
    IN  IF unavailable > 0 THEN
            Condition(resourceAvailableConditionType, ConditionFalse, "ResourcesNotAvailable",
                      Sprintf(<<Dec(unavailable), " of ", Dec(total),
                                " resources are not available">>),
                      generation)
        ELSE IF unknown > 0 THEN
            Condition(resourceAvailableConditionType, ConditionUnknown, "ResourcesStatusUnknown",
                      Sprintf(<<Dec(unknown), " of ", Dec(total),
                                " resources have unknown status">>),
                      generation)
        ELSE IF available = 0 THEN
            Condition(resourceAvailableConditionType, ConditionUnknown, "ResourcesStatusUnknown",
                      Sprintf(<<"cannot get any available resource">>),
                      generation)
        ELSE
            Condition(resourceAvailableConditionType, ConditionTrue, "ResourcesAvailable",
                      Sprintf(<<"All resources are available">>),
                      generation)

aggregateManifestConditions(generation, manifests) ==
    LET available == CountAvailable(manifests, ConditionTrue)
        unavailable == CountAvailable(manifests, ConditionFalse)
        unknown == CountAvailable(manifests, ConditionUnknown)
    IN  IF unavailable > 0 THEN
            Condition(resourceAvailableConditionType, ConditionFalse, "ResourcesNotAvailable",
                      Sprintf(<<Dec(unavailable), " of ", Dec(Len(manifests)),
                                " resources are not available">>),
                      generation)
        ELSE IF unknown > 0 THEN
            Condition(resourceAvailableConditionType, ConditionUnknown, "ResourcesStatusUnknown",
                      Sprintf(<<Dec(unknown), " of ", Dec(Len(manifests)),
                                " resources have unknown status">>),
                      generation)
        ELSE IF available = 0 THEN
            Condition(resourceAvailableConditionType, ConditionUnknown, "ResourcesStatusUnknown",
                      Sprintf(<<"cannot get any available resource">>),
                      generation)
        ELSE
            Condition(resourceAvailableConditionType, ConditionTrue, "ResourcesAvailable",
                      Sprintf(<<"All resources are available">>),
                      generation)

----------------------------------------------------------------------------
(* meta.SetStatusCondition, as called by both controllers: the condition   *)
(* type is the key; an existing condition is updated in place, a new one   *)
(* is appended; lastTransitionTime moves only when the status changes.     *)

RECURSIVE FindStatusCondition(_, _, _)
\* index of the first condition of the given type at or after position i, 0 if none
FindStatusCondition(conditions, type, i) ==
    IF i > Len(conditions) THEN 0
    ELSE IF conditions[i].type = type THEN i
    ELSE FindStatusCondition(conditions, type, i + 1)

\* variant: the condition is appended whether or not its type is already there
SetStatusConditionAppends(conditions, newCondition, t) ==
    Append(conditions,
           [newCondition EXCEPT !.lastTransitionTime =
                IF newCondition.lastTransitionTime = 0 THEN t
                ELSE newCondition.lastTransitionTime])

SetStatusCondition(conditions, newCondition, t) ==
    LET i == FindStatusCondition(conditions, newCondition.type, 1)
    IN  IF i = 0 THEN
            Append(conditions,
                   [newCondition EXCEPT !.lastTransitionTime =
                        IF newCondition.lastTransitionTime = 0 THEN t
                        ELSE newCondition.lastTransitionTime])
        ELSE
            LET old == conditions[i]
                changed == old.status # newCondition.status
            IN  [conditions EXCEPT ![i] =
                    [type |-> old.type,
                     status |-> newCondition.status,
                     reason |-> newCondition.reason,
                     message |-> newCondition.message,
                     observedGeneration |-> newCondition.observedGeneration,
                     lastTransitionTime |->
                        IF ~changed THEN old.lastTransitionTime
                        ELSE IF newCondition.lastTransitionTime # 0
                             THEN newCondition.lastTransitionTime
                             ELSE t]]

----------------------------------------------------------------------------
(* Status documents and the status reader (GetValuesByRule,                *)
(* getValueByJsonPath, the built-in common-fields table).                  *)

GVK(group, version, kind) == [group |-> group, version |-> version, kind |-> kind]
DeploymentGVK == GVK("apps", "v1", "Deployment")
JobGVK == GVK("batch", "v1", "Job")
PodGVK == GVK("", "v1", "Pod")
ConfigMapGVK == GVK("", "v1", "ConfigMap")

\* workv1alpha1.JsonPath
JsonPath(name, version, path) == [name |-> name, version |-> version, path |-> path]

deploymentRule ==
    <<JsonPath("ReadyReplicas", "", ".status.readyReplicas"),
      JsonPath("Replicas", "", ".status.replicas"),
      JsonPath("AvailableReplicas", "", ".status.availableReplicas")>>

jobRule ==
    <<JsonPath("JobComplete", "", ".status.conditions[?(@.type==\"Complete\")].status"),
      JsonPath("JobSucceeded", "", ".status.succeeded")>>

podRule ==
    <<JsonPath("PodReady", "", ".status.conditions[?(@.type==\"Ready\")].status"),
      JsonPath("PodPhase", "", ".status.phase")>>

\* DefaultCommonFieldsStatusResolver.GetPathsByKind: the table lookup, empty for an unregistered kind
GetPathsByKind(gvk) ==
    IF gvk = DeploymentGVK THEN deploymentRule
    ELSE IF gvk = JobGVK THEN jobRule
    ELSE IF gvk = PodGVK THEN podRule
    ELSE <<>>

\* The values a status document holds at a path, by their Go runtime type.
JInt(n) == [t |-> "int64", i |-> n, s |-> "", b |-> FALSE]
JString(str) == [t |-> "string", i |-> 0, s |-> str, b |-> FALSE]
JBool(bool) == [t |-> "bool", i |-> 0, s |-> "", b |-> bool]
JFloat == [t |-> "float64", i |-> 0, s |-> "", b |-> FALSE]
JMap == [t |-> "map", i |-> 0, s |-> "", b |-> FALSE]
JSlice == [t |-> "slice", i |-> 0, s |-> "", b |-> FALSE]
JNull == [t |-> "nil", i |-> 0, s |-> "", b |-> FALSE]
JMissing == [t |-> "missing", i |-> 0, s |-> "", b |-> FALSE]
\* FindResults returns no result list at all, or an error
JNoResults == [t |-> "noresults", i |-> 0, s |-> "", b |-> FALSE]
JFindErr == [t |-> "finderror", i |-> 0, s |-> "", b |-> FALSE]

\* path expressions the documents of the model are read with
UnparsablePath == ".status[unclosed"
KnownPaths ==
    {deploymentRule[k].path : k \in 1..3} \cup {jobRule[k].path : k \in 1..2}
    \cup {podRule[k].path : k \in 1..2} \cup {".status", UnparsablePath}

\* a document holding the given values, every other path missing
Content(f) == [p \in KnownPaths |-> IF p \in DOMAIN f THEN f[p] ELSE JMissing]

\* *unstructured.Unstructured: type, coordinates and content
Unstructured(gvk, namespace, name, content) ==
    [gvk |-> gvk, namespace |-> namespace, name |-> name, content |-> content]

\* workv1alpha1.FieldValue: a nil pointer field is <<>>, a set one is <<v>>
FieldValue(type, integer, string, boolean) ==
    [type |-> type, integer |-> integer, string |-> string, boolean |-> boolean]
FeedbackValue(name, value) == [name |-> name, value |-> value]

\* variant: a floating-point number is stored as an integer
getValueByJsonPathFloatAsInteger(name, path, obj) ==
    IF path = UnparsablePath THEN
        [value |-> <<>>,
         err |-> <<Sprintf(<<"failed to parse json path ", path, " of ", name>>)>>]
    ELSE
        LET value == obj.content[path]
        IN  IF value.t = "finderror" THEN
                [value |-> <<>>,
                 err |-> <<Sprintf(<<"failed to find value for ", name>>)>>]
            ELSE IF value.t = "noresults" \/ value.t = "missing" THEN
                [value |-> <<>>, err |-> <<>>]
            ELSE IF value.t = "nil" THEN [value |-> <<>>, err |-> <<>>]
            ELSE IF value.t = "int64" \/ value.t = "float64" THEN
                [value |-> <<FeedbackValue(name, FieldValue("Integer", <<value.i>>, <<>>, <<>>))>>,
                 err |-> <<>>]
            ELSE IF value.t = "string" THEN
                [value |-> <<FeedbackValue(name, FieldValue("String", <<>>, <<value.s>>, <<>>))>>,
                 err |-> <<>>]
            ELSE IF value.t = "bool" THEN
                [value |-> <<FeedbackValue(name, FieldValue("Boolean", <<>>, <<>>, <<value.b>>))>>,
                 err |-> <<>>]
            ELSE
                [value |-> <<>>,
                 err |-> <<Sprintf(<<"the type ", value.t, " of the value for ", name,
                                     " is not found">>)>>]

\* variant: a zero value (0, "", false) leaves the payload field unset
getValueByJsonPathOmitsZero(name, path, obj) ==
    IF path = UnparsablePath THEN
        [value |-> <<>>,
         err |-> <<Sprintf(<<"failed to parse json path ", path, " of ", name>>)>>]
    ELSE
        LET value == obj.content[path]
        IN  IF value.t = "finderror" THEN
                [value |-> <<>>,
                 err |-> <<Sprintf(<<"failed to find value for ", name>>)>>]
            ELSE IF value.t = "noresults" \/ value.t = "missing" THEN
                [value |-> <<>>, err |-> <<>>]
            ELSE IF value.t = "nil" THEN [value |-> <<>>, err |-> <<>>]
            ELSE IF value.t = "int64" THEN
                [value |-> <<FeedbackValue(name, FieldValue("Integer",
                                                            IF value.i = 0 THEN <<>> ELSE <<value.i>>,
                                                            <<>>, <<>>))>>,
                 err |-> <<>>]
            ELSE IF value.t = "string" THEN
                [value |-> <<FeedbackValue(name, FieldValue("String", <<>>,
                                                            IF value.s = "" THEN <<>> ELSE <<value.s>>,
                                                            <<>>))>>,
                 err |-> <<>>]
            ELSE IF value.t = "bool" THEN
                [value |-> <<FeedbackValue(name, FieldValue("Boolean", <<>>, <<>>,
                                                            IF value.b THEN <<value.b>> ELSE <<>>))>>,
                 err |-> <<>>]
            ELSE
                [value |-> <<>>,
                 err |-> <<Sprintf(<<"the type ", value.t, " of the value for ", name,
                                     " is not found">>)>>]

\* variant: a null value is not ignored, its type is reported as not supported
getValueByJsonPathNullIsError(name, path, obj) ==
    IF path = UnparsablePath THEN
        [value |-> <<>>,
         err |-> <<Sprintf(<<"failed to parse json path ", path, " of ", name>>)>>]
    ELSE
        LET value == obj.content[path]
        IN  IF value.t = "finderror" THEN
                [value |-> <<>>,
                 err |-> <<Sprintf(<<"failed to find value for ", name>>)>>]
            ELSE IF value.t = "noresults" \/ value.t = "missing" THEN
                [value |-> <<>>, err |-> <<>>]
            ELSE IF value.t = "int64" THEN
                [value |-> <<FeedbackValue(name, FieldValue("Integer", <<value.i>>, <<>>, <<>>))>>,
                 err |-> <<>>]
            ELSE IF value.t = "string" THEN
                [value |-> <<FeedbackValue(name, FieldValue("String", <<>>, <<value.s>>, <<>>))>>,
                 err |-> <<>>]
            ELSE IF value.t = "bool" THEN
                [value |-> <<FeedbackValue(name, FieldValue("Boolean", <<>>, <<>>, <<value.b>>))>>,
                 err |-> <<>>]
            ELSE
                [value |-> <<>>,
                 err |-> <<Sprintf(<<"the type ", value.t, " of the value for ", name,
                                     " is not found">>)>>]

\* jsonpath Parse + FindResults with AllowMissingKeys(true): a parse error, an
\* evaluation error, no result for a missing key, otherwise the single value
\* at the path
getValueByJsonPath(name, path, obj) ==
    IF path = UnparsablePath THEN
        [value |-> <<>>,
         err |-> <<Sprintf(<<"failed to parse json path ", path, " of ", name>>)>>]
    ELSE
        LET value == obj.content[path]
        IN  IF value.t = "finderror" THEN
                [value |-> <<>>,
                 err |-> <<Sprintf(<<"failed to find value for ", name>>)>>]
            ELSE IF value.t = "noresults" \/ value.t = "missing" THEN
                [value |-> <<>>, err |-> <<>>]
            ELSE IF value.t = "nil" THEN [value |-> <<>>, err |-> <<>>]
            ELSE IF value.t = "int64" THEN
                [value |-> <<FeedbackValue(name, FieldValue("Integer", <<value.i>>, <<>>, <<>>))>>,
                 err |-> <<>>]
            ELSE IF value.t = "string" THEN
                [value |-> <<FeedbackValue(name, FieldValue("String", <<>>, <<value.s>>, <<>>))>>,
                 err |-> <<>>]
            ELSE IF value.t = "bool" THEN
                [value |-> <<FeedbackValue(name, FieldValue("Boolean", <<>>, <<>>, <<value.b>>))>>,
                 err |-> <<>>]
            ELSE
                [value |-> <<>>,
                 err |-> <<Sprintf(<<"the type ", value.t, " of the value for ", name,
                                     " is not found">>)>>]

CommonFieldsType == "CommonFields"
JSONPathsType == "JSONPaths"

\* workv1alpha1.StatusFeedbackRule
StatusFeedbackRule(type, jsonPaths) == [type |-> type, jsonPaths |-> jsonPaths]

RECURSIVE CommonFieldsValues(_, _)
\* the loop over the built-in paths: errors and values are both collected
CommonFieldsValues(paths, obj) ==
    IF paths = <<>> THEN [values |-> <<>>, errs |-> <<>>]
    ELSE LET r == getValueByJsonPath(Head(paths).name, Head(paths).path, obj)
             rest == CommonFieldsValues(Tail(paths), obj)
         IN  [values |-> r.value \o rest.values, errs |-> r.err \o rest.errs]

RECURSIVE JsonPathsValuesFirstError(_, _)
\* variant: the loop over the explicit paths ends at the first error
JsonPathsValuesFirstError(paths, obj) ==
    IF paths = <<>> THEN [values |-> <<>>, errs |-> <<>>]
    ELSE LET path == Head(paths)
             rest == JsonPathsValuesFirstError(Tail(paths), obj)
         IN  IF path.version # "" /\ obj.gvk.version # path.version THEN
                 [values |-> <<>>,
                  errs |-> <<Sprintf(<<"version set in the path ", path.name,
                                       " is not matched for the related resource">>)>>]
             ELSE
                 LET r == getValueByJsonPath(path.name, path.path, obj)
                 IN  IF r.err # <<>> THEN [values |-> <<>>, errs |-> r.err]
                     ELSE [values |-> r.value \o rest.values, errs |-> rest.errs]

RECURSIVE JsonPathsValuesNoVersionFilter(_, _)
\* variant: every explicit path is evaluated, whatever version it declares
JsonPathsValuesNoVersionFilter(paths, obj) ==
    IF paths = <<>> THEN [values |-> <<>>, errs |-> <<>>]
    ELSE LET path == Head(paths)
             rest == JsonPathsValuesNoVersionFilter(Tail(paths), obj)
             r == getValueByJsonPath(path.name, path.path, obj)
         IN  [values |-> r.value \o rest.values, errs |-> r.err \o rest.errs]

RECURSIVE JsonPathsValues(_, _)
\* the loop over the explicit paths, with the version filter
JsonPathsValues(paths, obj) ==
    IF paths = <<>> THEN [values |-> <<>>, errs |-> <<>>]
    ELSE LET path == Head(paths)
             rest == JsonPathsValues(Tail(paths), obj)
         IN  IF path.version # "" /\ obj.gvk.version # path.version THEN
                 [values |-> rest.values,
                  errs |-> <<Sprintf(<<"version set in the path ", path.name,
                                       " is not matched for the related resource">>)>>
                           \o rest.errs]
             ELSE
                 LET r == getValueByJsonPath(path.name, path.path, obj)
                 IN  [values |-> r.value \o rest.values, errs |-> r.err \o rest.errs]

\* variant: a kind without built-in paths yields nothing and no error
GetValuesByRuleSilentlyEmpty(obj, rule) ==
    IF rule.type = CommonFieldsType THEN CommonFieldsValues(GetPathsByKind(obj.gvk), obj)
    ELSE IF rule.type = JSONPathsType THEN JsonPathsValues(rule.jsonPaths, obj)
    ELSE [values |-> <<>>, errs |-> <<>>]

\* StatusReader.GetValuesByRule; errs is the aggregate (<<>> is the nil error)
GetValuesByRule(obj, rule) ==
    IF rule.type = CommonFieldsType THEN
        LET paths == GetPathsByKind(obj.gvk)
        IN  IF Len(paths) = 0 THEN
                [values |-> <<>>,
                 errs |-> <<Sprintf(<<"cannot find the CommonFields statuses for resrouce with gvk ",
                                      obj.gvk.group, "/", obj.gvk.version, " ", obj.gvk.kind>>)>>]
            ELSE CommonFieldsValues(paths, obj)
    ELSE IF rule.type = JSONPathsType THEN JsonPathsValues(rule.jsonPaths, obj)
    ELSE [values |-> <<>>, errs |-> <<>>]

RECURSIVE ValuesByRules(_, _)
\* the loop of getSyncValues / getFeedbackValues over the rules
ValuesByRules(obj, rules) ==
    IF rules = <<>> THEN [values |-> <<>>, errs |-> <<>>]
    ELSE LET r == GetValuesByRule(obj, Head(rules))
             rest == ValuesByRules(obj, Tail(rules))
         IN  [values |-> r.values \o rest.values, errs |-> r.errs \o rest.errs]

RECURSIVE JoinErrors(_)
JoinErrors(errs) ==
    IF errs = <<>> THEN <<>>
    ELSE IF Len(errs) = 1 THEN Head(errs)
    ELSE Head(errs) \o <<", ">> \o JoinErrors(Tail(errs))

RECURSIVE DistinctErrors(_, _)
\* the messages that were not seen before, in the order of their first appearance
DistinctErrors(errs, seen) ==
    IF errs = <<>> THEN <<>>
    ELSE IF Head(errs) \in seen THEN DistinctErrors(Tail(errs), seen)
    ELSE <<Head(errs)>> \o DistinctErrors(Tail(errs), seen \cup {Head(errs)})

\* the text of utilerrors.NewAggregate(errs).Error(): a message is printed
\* once, several messages are joined within brackets
AggregateText(errs) ==
    IF Len(errs) = 1 THEN Head(errs)
    ELSE LET distinct == DistinctErrors(errs, {})
         IN  IF Len(distinct) = 1 THEN Head(distinct)
             ELSE <<"[">> \o JoinErrors(distinct) \o <<"]">>

getSyncValues(obj, statusSyncRules) ==
    LET r == ValuesByRules(obj, statusSyncRules)
    IN  IF r.errs # <<>> THEN
            [values |-> r.values,
             condition |-> Condition(statusSyncConditionType, ConditionFalse, "StatusSyncFailed",
                                     Sprintf(<<"Sync status failed with error ">> \o AggregateText(r.errs)),
                                     0)]
        ELSE IF Len(r.values) = 0 THEN
            [values |-> r.values,
             condition |-> Condition(statusSyncConditionType, ConditionTrue, "NoStatusSynced", <<>>, 0)]
        ELSE
            [values |-> r.values,
             condition |-> Condition(statusSyncConditionType, ConditionTrue, "StatusSynced", <<>>, 0)]

\* variant: errors fail the outcome only when no value was produced
getFeedbackValuesLenient(obj, statusFeedbackRules) ==
    LET r == ValuesByRules(obj, statusFeedbackRules)
    IN  IF r.errs # <<>> /\ Len(r.values) = 0 THEN
            [values |-> r.values,
             condition |-> Condition(statusFeedbackConditionType, ConditionFalse,
                                     "StatusFeedbackSyncFailed",
                                     Sprintf(<<"Sync status feedback failed with error ">>
                                             \o AggregateText(r.errs)),
                                     0)]
        ELSE IF Len(r.values) = 0 THEN
            [values |-> r.values,
             condition |-> Condition(statusFeedbackConditionType, ConditionTrue,
                                     "NoStatusFeedbackSynced", <<>>, 0)]
        ELSE
            [values |-> r.values,
             condition |-> Condition(statusFeedbackConditionType, ConditionTrue,
                                     "StatusFeedbackSynced", <<>>, 0)]

getFeedbackValues(obj, statusFeedbackRules) ==
    LET r == ValuesByRules(obj, statusFeedbackRules)
    IN  IF r.errs # <<>> THEN
            [values |-> r.values,
             condition |-> Condition(statusFeedbackConditionType, ConditionFalse,
                                     "StatusFeedbackSyncFailed",
                                     Sprintf(<<"Sync status feedback failed with error ">>
                                             \o AggregateText(r.errs)),
                                     0)]
        ELSE IF Len(r.values) = 0 THEN
            [values |-> r.values,
             condition |-> Condition(statusFeedbackConditionType, ConditionTrue,
                                     "NoStatusFeedbackSynced", <<>>, 0)]
        ELSE
            [values |-> r.values,
             condition |-> Condition(statusFeedbackConditionType, ConditionTrue,
                                     "StatusFeedbackSynced", <<>>, 0)]

----------------------------------------------------------------------------
(* The hub record and the spoke resources of the model                     *)

\* workv1alpha1.Manifest: the coordinates of the embedded resource and the
\* feedback rules (rulesNil: the StatusFeedbackRules slice is nil)
Manifest(gvk, namespace, name, rulesNil, statusFeedbackRules) ==
    [gvk |-> gvk, namespace |-> namespace, name |-> name,
     rulesNil |-> rulesNil, statusFeedbackRules |-> statusFeedbackRules]

\* an entry of Spec.WorkloadConfig.ManifestConfigs
ManifestConfig(gvk, statusSyncRules) ==
    [resourceIdentifier |-> gvk, statusSyncRules |-> statusSyncRules]

\* workv1alpha1.ResourceIdentifier of a manifest-condition entry
ResourceIdentifier(ordinal, gvk, namespace, name) ==
    [ordinal |-> ordinal, group |-> gvk.group, version |-> gvk.version, kind |-> gvk.kind,
     namespace |-> namespace, name |-> name]

WebManifest ==
    Manifest(DeploymentGVK, "default", "web", FALSE,
             <<StatusFeedbackRule(CommonFieldsType, <<>>)>>)
DbManifest ==
    Manifest(PodGVK, "default", "db", FALSE,
             <<StatusFeedbackRule(JSONPathsType,
                                  <<JsonPath("Phase", "", ".status.phase"),
                                    JsonPath("Old", "v1beta1", ".status.phase")>>)>>)
DbManifestNoRules == Manifest(PodGVK, "default", "db", TRUE, <<>>)
LegacyManifest ==
    Manifest(DeploymentGVK, "default", "legacy", FALSE,
             <<StatusFeedbackRule(CommonFieldsType, <<>>)>>)

SyncConfigs ==
    <<ManifestConfig(DeploymentGVK, <<StatusFeedbackRule(CommonFieldsType, <<>>)>>),
      ManifestConfig(PodGVK,
                     <<StatusFeedbackRule(JSONPathsType,
                                          <<JsonPath("Phase", "", ".status.phase")>>)>>)>>

\* the specs a record of the model is created with
WorkSpecs ==
    {[manifests |-> <<WebManifest, DbManifest>>, manifestConfigs |-> SyncConfigs],
     [manifests |-> <<LegacyManifest, DbManifestNoRules>>, manifestConfigs |-> <<SyncConfigs[1]>>]}

\* what resolving and fetching the resource of a manifest yields
DecodeErr == [kind |-> "DecodeErr", content |-> Content(<<>>)]
NotFound == [kind |-> "NotFound", content |-> Content(<<>>)]
OtherErr == [kind |-> "OtherErr", content |-> Content(<<>>)]
Found(content) == [kind |-> "Found", content |-> content]

\* the status document the resource of a manifest has while it exists on the spoke
WebContent ==
    Content([p \in {".status.replicas", ".status.readyReplicas"} |->
                IF p = ".status.replicas" THEN JInt(2) ELSE JInt(1)])
LegacyContent ==
    Content([p \in {".status.replicas", ".status.availableReplicas"} |->
                IF p = ".status.replicas" THEN JInt(2) ELSE JMap])
DbContent == Content([p \in {".status.phase"} |-> JString("Running")])
ContentOf(manifest) ==
    IF manifest.name = "web" THEN WebContent
    ELSE IF manifest.name = "legacy" THEN LegacyContent
    ELSE DbContent

\* the outcomes of resolving and fetching the resource of the manifest at ordinal i
SpokeStates(manifests, i) ==
    {NotFound, IF i = 1 THEN DecodeErr ELSE OtherErr, Found(ContentOf(manifests[i]))}

\* the status a record carries once its manifests were applied: one entry per
\* manifest ordinal, each with the Applied condition
AppliedCondition == [Condition(appliedConditionType, ConditionTrue, "AppliedManifestComplete", <<>>, 1)
                        EXCEPT !.lastTransitionTime = 1]
InitialStatus(manifests) ==
    [conditions |-> <<AppliedCondition>>,
     manifestConditions |->
        [i \in 1..Len(manifests) |->
            ManifestCondition(ResourceIdentifier(i - 1, manifests[i].gvk,
                                                 manifests[i].namespace, manifests[i].name),
                              <<AppliedCondition>>, <<>>, <<>>)]]

----------------------------------------------------------------------------
(* Collaborators: the spoke fetch and the conditional status write          *)

\* decodeUnstructured + spokeDynamicClient...Get: the object, or the error
FetchResource(manifest, outcome) ==
    IF outcome.kind = "Found"
    THEN [obj |-> <<Unstructured(manifest.gvk, manifest.namespace, manifest.name, outcome.content)>>,
          err |-> "nil"]
    ELSE [obj |-> <<>>, err |-> outcome.kind]

\* variant: the write is accepted whatever resourceVersion it was computed from
StatusUpdateUnconditional(st, work) ==
    [store |-> [st EXCEPT !.status = work.status, !.resourceVersion = @ + 1], err |-> "nil"]

\* client.Status().Update: accepted only on the resourceVersion that was read;
\* an accepted write replaces the whole status and moves the resourceVersion
StatusUpdate(st, work) ==
    IF work.resourceVersion # st.resourceVersion
    THEN [store |-> st, err |-> "Conflict"]
    ELSE [store |-> [st EXCEPT !.status = work.status, !.resourceVersion = @ + 1],
          err |-> "nil"]

\* equality.Semantic.DeepEqual on the two status parts
StatusDeepEqual(a, b) ==
    /\ a.conditions = b.conditions
    /\ a.manifestConditions = b.manifestConditions

----------------------------------------------------------------------------
(* StatusSyncController                                                    *)

\* variant: the NotFound case comes after the case of any other fetch error
buildAvailableNotFoundLast(manifest, outcome) ==
    LET r == FetchResource(manifest, outcome)
    IN  IF r.err = "DecodeErr" THEN
            [obj |-> <<>>, err |-> r.err,
             condition |-> Condition(resourceAvailableConditionType, ConditionUnknown,
                                     "IncompletedResourceMeta",
                                     Sprintf(<<"Resource meta is incompleted">>), 0)]
        ELSE IF r.err # "nil" THEN
            [obj |-> <<>>, err |-> r.err,
             condition |-> Condition(resourceAvailableConditionType, ConditionUnknown,
                                     "FetchingResourceFailed",
                                     Sprintf(<<"Failed to fetch resource: ", r.err>>), 0)]
        ELSE IF r.err = "NotFound" THEN
            [obj |-> <<>>, err |-> r.err,
             condition |-> Condition(resourceAvailableConditionType, ConditionFalse,
                                     "ResourceNotAvailable",
                                     Sprintf(<<"Resource is not available">>), 0)]
        ELSE
            [obj |-> r.obj, err |-> "nil",
             condition |-> Condition(resourceAvailableConditionType, ConditionTrue,
                                     "ResourceAvailable",
                                     Sprintf(<<"Resource is available">>), 0)]

\* variant: a manifest whose identity does not resolve is returned as an
\* object beside the error
buildAvailableReturnsUndecoded(manifest, outcome) ==
    LET r == FetchResource(manifest, outcome)
    IN  IF r.err = "DecodeErr" THEN
            [obj |-> <<Unstructured(manifest.gvk, manifest.namespace, manifest.name,
                                    outcome.content)>>,
             err |-> r.err,
             condition |-> Condition(resourceAvailableConditionType, ConditionUnknown,
                                     "IncompletedResourceMeta",
                                     Sprintf(<<"Resource meta is incompleted">>), 0)]
        ELSE IF r.err = "NotFound" THEN
            [obj |-> <<>>, err |-> r.err,
             condition |-> Condition(resourceAvailableConditionType, ConditionFalse,
                                     "ResourceNotAvailable",
                                     Sprintf(<<"Resource is not available">>), 0)]
        ELSE IF r.err # "nil" THEN
            [obj |-> <<>>, err |-> r.err,
             condition |-> Condition(resourceAvailableConditionType, ConditionUnknown,
                                     "FetchingResourceFailed",
                                     Sprintf(<<"Failed to fetch resource: ", r.err>>), 0)]
        ELSE
            [obj |-> r.obj, err |-> "nil",
             condition |-> Condition(resourceAvailableConditionType, ConditionTrue,
                                     "ResourceAvailable",
                                     Sprintf(<<"Resource is available">>), 0)]

buildAvailableStatusCondition(manifest, outcome) ==
    LET r == FetchResource(manifest, outcome)
    IN  IF r.err = "DecodeErr" THEN
            [obj |-> <<>>, err |-> r.err,
             condition |-> Condition(resourceAvailableConditionType, ConditionUnknown,
                                     "IncompletedResourceMeta",
                                     Sprintf(<<"Resource meta is incompleted">>), 0)]
        ELSE IF r.err = "NotFound" THEN
            [obj |-> <<>>, err |-> r.err,
             condition |-> Condition(resourceAvailableConditionType, ConditionFalse,
                                     "ResourceNotAvailable",
                                     Sprintf(<<"Resource is not available">>), 0)]
        ELSE IF r.err # "nil" THEN
            [obj |-> <<>>, err |-> r.err,
             condition |-> Condition(resourceAvailableConditionType, ConditionUnknown,
                                     "FetchingResourceFailed",
                                     Sprintf(<<"Failed to fetch resource: ", r.err>>), 0)]
        ELSE
            [obj |-> r.obj, err |-> "nil",
             condition |-> Condition(resourceAvailableConditionType, ConditionTrue,
                                     "ResourceAvailable",
                                     Sprintf(<<"Resource is available">>), 0)]

RECURSIVE FindManifestConfig(_, _, _)
\* index of the first manifest config whose group, version and kind are the object's, 0 if none
FindManifestConfig(manifestConfigs, gvk, k) ==
    IF k > Len(manifestConfigs) THEN 0
    ELSE IF manifestConfigs[k].resourceIdentifier.group = gvk.group
            /\ manifestConfigs[k].resourceIdentifier.version = gvk.version
            /\ manifestConfigs[k].resourceIdentifier.kind = gvk.kind THEN k
    ELSE FindManifestConfig(manifestConfigs, gvk, k + 1)

\* variant: the extracted values are appended to the values already stored
syncWorkManifestAppending(work, index, outcome, t) ==
    LET manifest == work.spec.manifests[index]
        built == buildAvailableStatusCondition(manifest, outcome)
        entry == work.status.manifestConditions[index]
        withAvailable == SetStatusCondition(entry.conditions, built.condition, t)
    IN  IF built.err # "nil" THEN
            [work EXCEPT !.status.manifestConditions[index].conditions = withAvailable]
        ELSE
            LET obj == built.obj[1]
                k == FindManifestConfig(work.spec.manifestConfigs, obj.gvk, 1)
            IN  IF k = 0 THEN
                    [work EXCEPT !.status.manifestConditions[index].conditions = withAvailable]
                ELSE
                    LET r == getSyncValues(obj, work.spec.manifestConfigs[k].statusSyncRules)
                    IN  [work EXCEPT
                            !.status.manifestConditions[index].conditions =
                                SetStatusCondition(withAvailable, r.condition, t),
                            !.status.manifestConditions[index].statusSync = @ \o r.values]

\* one iteration of the manifest loop of syncWork on the copy `work`
syncWorkManifest(work, index, outcome, t) ==
    LET manifest == work.spec.manifests[index]
        built == buildAvailableStatusCondition(manifest, outcome)
        entry == work.status.manifestConditions[index]
        withAvailable == SetStatusCondition(entry.conditions, built.condition, t)
    IN  IF built.err # "nil" THEN
            [work EXCEPT !.status.manifestConditions[index].conditions = withAvailable]
        ELSE
            LET obj == built.obj[1]
                k == FindManifestConfig(work.spec.manifestConfigs, obj.gvk, 1)
            IN  IF k = 0 THEN
                    [work EXCEPT !.status.manifestConditions[index].conditions = withAvailable]
                ELSE
                    LET r == getSyncValues(obj, work.spec.manifestConfigs[k].statusSyncRules)
                    IN  [work EXCEPT
                            !.status.manifestConditions[index].conditions =
                                SetStatusCondition(withAvailable, r.condition, t),
                            !.status.manifestConditions[index].statusSync = r.values]

RECURSIVE syncWorkLoop(_, _, _, _)
\* the manifest loop of syncWork from ordinal index on, the resource of the
\* manifest at ordinal i resolving and fetching as outcomes[i]
syncWorkLoop(work, outcomes, index, t) ==
    IF index > Len(work.spec.manifests) THEN work
    ELSE syncWorkLoop(syncWorkManifest(work, index, outcomes[index], t), outcomes, index + 1, t)

\* time.Now() as SetStatusCondition reads it, at the granularity of the changes
\* of the spoke resources; the Applied conditions of a new record carry time 1
now == spokeChanges + 2

\* the zero Work
NoWork ==
    [resourceVersion |-> 0, generation |-> 0,
     spec |-> [manifests |-> <<>>, manifestConfigs |-> <<>>],
     status |-> [conditions |-> <<>>, manifestConditions |-> <<>>]]

\* a controller between two passes: no locals; result and attempts tell how
\* the last pass ended and how many status writes it attempted; err is the
\* error the pass returned ("nil" for none), requeueAfter whether the returned
\* ctrl.Result asks for the next pass after statusSyncInterval, errorLogged
\* whether the pass called log.Error
IdlePass(result, attempts) ==
    [pc |-> "idle", index |-> 0, originalWork |-> NoWork, work |-> NoWork,
     startEpoch |-> 0, attempts |-> attempts, result |-> result,
     err |-> "nil", requeueAfter |-> FALSE, errorLogged |-> FALSE]

\* syncAllWorks: the list succeeded; syncWork starts on a deep copy of the listed record
SyncList ==
    /\ sync.pc = "idle"
    /\ sync' = [pc |-> IF Len(store.spec.manifests) = 0 THEN "update" ELSE "manifests",
                index |-> 1, originalWork |-> store, work |-> store,
                startEpoch |-> spokeChanges, attempts |-> 0, result |-> "none",
                err |-> "nil", requeueAfter |-> FALSE, errorLogged |-> FALSE]
    /\ UNCHANGED <<store, spoke, spokeChanges, fb, writes, persisted, aggVars, readVars, sweepVars>>

\* variant: a failed list ends the process
SyncListFailFatal ==
    /\ sync.pc = "idle"
    /\ sync' = [IdlePass("listError", 0) EXCEPT !.pc = "crashed", !.err = "ListErr",
                                                !.errorLogged = TRUE]
    /\ UNCHANGED <<store, spoke, spokeChanges, fb, writes, persisted, aggVars, readVars, sweepVars>>

\* syncAllWorks: the list failed; the error is logged and no record is processed
SyncListFail ==
    /\ sync.pc = "idle"
    /\ sync' = [IdlePass("listError", 0) EXCEPT !.err = "ListErr", !.errorLogged = TRUE]
    /\ UNCHANGED <<store, spoke, spokeChanges, fb, writes, persisted, aggVars, readVars, sweepVars>>

\* variant: a manifest whose resource is not available ends the manifest loop
SyncManifestBreakOnError ==
    /\ sync.pc = "manifests"
    /\ IF sync.index > Len(sync.work.status.manifestConditions)
       THEN sync' = [IdlePass("panic", sync.attempts) EXCEPT !.pc = "crashed"]
       ELSE sync' = [sync EXCEPT
                        !.work = syncWorkManifest(sync.work, sync.index, spoke[sync.index], now),
                        !.index = @ + 1,
                        !.pc = IF sync.index = Len(sync.work.spec.manifests)
                                  \/ spoke[sync.index].kind # "Found"
                               THEN "update" ELSE "manifests"]
    /\ UNCHANGED <<store, spoke, spokeChanges, fb, writes, persisted, aggVars, readVars, sweepVars>>

\* syncWork: the body of the manifest loop for the manifest at sync.index;
\* indexing a manifest-condition entry that does not exist is a run-time panic
SyncManifest ==
    /\ sync.pc = "manifests"
    /\ IF sync.index > Len(sync.work.status.manifestConditions)
       THEN sync' = [IdlePass("panic", sync.attempts) EXCEPT !.pc = "crashed"]
       ELSE sync' = [sync EXCEPT
                        !.work = syncWorkManifest(sync.work, sync.index, spoke[sync.index], now),
                        !.index = @ + 1,
                        !.pc = IF sync.index = Len(sync.work.spec.manifests)
                               THEN "update" ELSE "manifests"]
    /\ UNCHANGED <<store, spoke, spokeChanges, fb, writes, persisted, aggVars, readVars, sweepVars>>

\* syncWork after the loop: the candidate with the aggregated condition
syncWorkCandidate(work, t) ==
    [work EXCEPT !.status.conditions =
        SetStatusCondition(@, aggregateManifestConditions(work.generation,
                                                          work.status.manifestConditions), t)]

\* variant: a rejected write is retried in the same pass on the re-read record
SyncUpdateRetry ==
    /\ sync.pc = "update"
    /\ LET work == syncWorkCandidate(sync.work, now)
       IN  IF StatusDeepEqual(sync.originalWork.status, work.status) THEN
               /\ sync' = IdlePass("nochange", sync.attempts)
               /\ UNCHANGED <<store, writes, persisted>>
           ELSE
               LET r == StatusUpdate(store, work)
               IN  /\ store' = r.store
                   /\ sync' = IF r.err = "nil"
                              THEN IdlePass("updated", sync.attempts + 1)
                              ELSE [sync EXCEPT !.pc = "manifests", !.index = 1,
                                                !.originalWork = store, !.work = store,
                                                !.attempts = @ + 1]
                   /\ writes' = IF r.err = "nil" THEN Append(writes, work.resourceVersion)
                                ELSE writes
                   /\ persisted' = IF r.err = "nil"
                                   THEN [persisted EXCEPT !.sync =
                                            [version |-> r.store.resourceVersion,
                                             epoch |-> IF sync.startEpoch = spokeChanges
                                                       THEN spokeChanges ELSE -1]]
                                   ELSE persisted
    /\ UNCHANGED <<spoke, spokeChanges, fb, aggVars, readVars, sweepVars>>

\* variant: the aggregate is computed from the manifest conditions that were read
SyncUpdateAggregatesRead ==
    /\ sync.pc = "update"
    /\ LET work == [sync.work EXCEPT !.status.conditions =
                       SetStatusCondition(@, aggregateManifestConditions(
                                                sync.work.generation,
                                                sync.originalWork.status.manifestConditions), now)]
       IN  IF StatusDeepEqual(sync.originalWork.status, work.status) THEN
               /\ sync' = IdlePass("nochange", sync.attempts)
               /\ UNCHANGED <<store, writes, persisted>>
           ELSE
               LET r == StatusUpdate(store, work)
               IN  /\ store' = r.store
                   /\ sync' = [IdlePass(IF r.err = "nil" THEN "updated" ELSE "conflict",
                                        sync.attempts + 1)
                                 EXCEPT !.err = r.err, !.errorLogged = (r.err # "nil")]
                   /\ writes' = IF r.err = "nil" THEN Append(writes, work.resourceVersion)
                                ELSE writes
                   /\ persisted' = IF r.err = "nil"
                                   THEN [persisted EXCEPT !.sync =
                                            [version |-> r.store.resourceVersion,
                                             epoch |-> IF sync.startEpoch = spokeChanges
                                                       THEN spokeChanges ELSE -1]]
                                   ELSE persisted
    /\ UNCHANGED <<spoke, spokeChanges, fb, aggVars, readVars, sweepVars>>

\* syncWork after the loop: aggregate, compare, and write at most once
SyncUpdate ==
    /\ sync.pc = "update"
    /\ LET work == syncWorkCandidate(sync.work, now)
       IN  IF StatusDeepEqual(sync.originalWork.status, work.status) THEN
               /\ sync' = IdlePass("nochange", sync.attempts)
               /\ UNCHANGED <<store, writes, persisted>>
           ELSE
               LET r == StatusUpdate(store, work)
               IN  /\ store' = r.store
                   /\ sync' = [IdlePass(IF r.err = "nil" THEN "updated" ELSE "conflict",
                                        sync.attempts + 1)
                                 EXCEPT !.err = r.err, !.errorLogged = (r.err # "nil")]
                   /\ writes' = IF r.err = "nil" THEN Append(writes, work.resourceVersion)
                                ELSE writes
                   /\ persisted' = IF r.err = "nil"
                                   THEN [persisted EXCEPT !.sync =
                                            [version |-> r.store.resourceVersion,
                                             epoch |-> IF sync.startEpoch = spokeChanges
                                                       THEN spokeChanges ELSE -1]]
                                   ELSE persisted
    /\ UNCHANGED <<spoke, spokeChanges, fb, aggVars, readVars, sweepVars>>

----------------------------------------------------------------------------
(* StatusFeedbackReconciler                                                *)

\* getResourceObject
getResourceObject(manifest, outcome) == FetchResource(manifest, outcome)

RECURSIVE FindManifestCondition(_, _, _)
\* index of the first manifest-condition entry that identifies the resource, 0 if none
FindManifestCondition(manifestConditions, resource, k) ==
    IF k > Len(manifestConditions) THEN 0
    ELSE LET identifier == manifestConditions[k].identifier
         IN  IF identifier.namespace = resource.namespace /\ identifier.name = resource.name
                /\ identifier.group = resource.gvk.group
                /\ identifier.version = resource.gvk.version
                /\ identifier.kind = resource.gvk.kind THEN k
             ELSE FindManifestCondition(manifestConditions, resource, k + 1)

\* variant: the entry is rebuilt from the feedback outcome alone
reconcileManifestRebuildsEntry(work, manifest, resource, t) ==
    LET r == getFeedbackValues(resource, manifest.statusFeedbackRules)
        k == FindManifestCondition(work.status.manifestConditions, resource, 1)
    IN  IF k = 0 THEN work
        ELSE [work EXCEPT
                !.status.manifestConditions[k] =
                    ManifestCondition(@.identifier, SetStatusCondition(<<>>, r.condition, t),
                                      <<>>, r.values)]

\* the part of the loop body of Reconcile that follows a successful fetch
reconcileManifest(work, manifest, resource, t) ==
    LET r == getFeedbackValues(resource, manifest.statusFeedbackRules)
        k == FindManifestCondition(work.status.manifestConditions, resource, 1)
    IN  IF k = 0 THEN work
        ELSE [work EXCEPT
                !.status.manifestConditions[k].conditions = SetStatusCondition(@, r.condition, t),
                !.status.manifestConditions[k].statusFeedbacks = r.values]

\* Reconcile: the record is read; the pass works on a deep copy
FbGet ==
    /\ fb.pc = "idle"
    /\ fb' = [pc |-> IF Len(store.spec.manifests) = 0 THEN "update" ELSE "manifests",
              index |-> 1, originalWork |-> store, work |-> store,
              startEpoch |-> spokeChanges, attempts |-> 0, result |-> "none",
                err |-> "nil", requeueAfter |-> FALSE, errorLogged |-> FALSE]
    /\ UNCHANGED <<store, spoke, spokeChanges, sync, writes, persisted, aggVars, readVars, sweepVars>>

\* Reconcile: reading the record failed with an error other than NotFound
FbGetFail ==
    /\ fb.pc = "idle"
    /\ fb' = [IdlePass("getError", 0) EXCEPT !.err = "GetErr"]
    /\ UNCHANGED <<store, spoke, spokeChanges, sync, writes, persisted, aggVars, readVars, sweepVars>>

\* variant: each iteration stores the status built so far in the record
FbManifestWriteThrough ==
    /\ fb.pc = "manifests"
    /\ LET manifest == fb.work.spec.manifests[fb.index]
           next == [fb EXCEPT !.index = @ + 1,
                              !.pc = IF fb.index = Len(fb.work.spec.manifests)
                                     THEN "update" ELSE "manifests"]
       IN  IF manifest.rulesNil THEN fb' = next
           ELSE LET r == getResourceObject(manifest, spoke[fb.index])
                IN  IF r.err # "nil"
                    THEN fb' = [IdlePass("fetchAbort", fb.attempts)
                                  EXCEPT !.requeueAfter = TRUE, !.errorLogged = TRUE]
                    ELSE fb' = [next EXCEPT !.work = reconcileManifest(fb.work, manifest,
                                                                       r.obj[1], now)]
    /\ store' = IF fb'.pc = "idle" THEN store ELSE [store EXCEPT !.status = fb'.work.status]
    /\ UNCHANGED <<spoke, spokeChanges, sync, writes, persisted, aggVars, readVars, sweepVars>>

\* Reconcile: the loop body for the manifest at fb.index
FbManifest ==
    /\ fb.pc = "manifests"
    /\ LET manifest == fb.work.spec.manifests[fb.index]
           next == [fb EXCEPT !.index = @ + 1,
                              !.pc = IF fb.index = Len(fb.work.spec.manifests)
                                     THEN "update" ELSE "manifests"]
       IN  IF manifest.rulesNil THEN fb' = next
           ELSE LET r == getResourceObject(manifest, spoke[fb.index])
                IN  IF r.err # "nil"
                    THEN fb' = [IdlePass("fetchAbort", fb.attempts)
                                  EXCEPT !.requeueAfter = TRUE, !.errorLogged = TRUE]
                    ELSE fb' = [next EXCEPT !.work = reconcileManifest(fb.work, manifest,
                                                                       r.obj[1], now)]
    /\ UNCHANGED <<store, spoke, spokeChanges, sync, writes, persisted, aggVars, readVars, sweepVars>>

\* variant: the candidate is written without comparing it to the status read
FbUpdateAlwaysWrites ==
    /\ fb.pc = "update"
    /\ LET r == StatusUpdate(store, fb.work)
       IN  /\ store' = r.store
           /\ fb' = [IdlePass(IF r.err = "nil" THEN "updated" ELSE "conflict",
                              fb.attempts + 1)
                       EXCEPT !.err = r.err, !.requeueAfter = TRUE]
           /\ writes' = IF r.err = "nil" THEN Append(writes, fb.work.resourceVersion)
                        ELSE writes
           /\ persisted' = IF r.err = "nil"
                           THEN [persisted EXCEPT !.fb =
                                    [version |-> r.store.resourceVersion,
                                     epoch |-> IF fb.startEpoch = spokeChanges
                                               THEN spokeChanges ELSE -1]]
                           ELSE persisted
    /\ UNCHANGED <<spoke, spokeChanges, sync, aggVars, readVars, sweepVars>>

\* Reconcile after the loop: compare, and write at most once
FbUpdate ==
    /\ fb.pc = "update"
    /\ IF StatusDeepEqual(fb.originalWork.status, fb.work.status) THEN
           /\ fb' = [IdlePass("nochange", fb.attempts) EXCEPT !.requeueAfter = TRUE]
           /\ UNCHANGED <<store, writes, persisted>>
       ELSE
           LET r == StatusUpdate(store, fb.work)
           IN  /\ store' = r.store
               /\ fb' = [IdlePass(IF r.err = "nil" THEN "updated" ELSE "conflict",
                                  fb.attempts + 1)
                           EXCEPT !.err = r.err, !.requeueAfter = TRUE]
               /\ writes' = IF r.err = "nil" THEN Append(writes, fb.work.resourceVersion)
                            ELSE writes
               /\ persisted' = IF r.err = "nil"
                               THEN [persisted EXCEPT !.fb =
                                        [version |-> r.store.resourceVersion,
                                         epoch |-> IF fb.startEpoch = spokeChanges
                                                   THEN spokeChanges ELSE -1]]
                               ELSE persisted
    /\ UNCHANGED <<spoke, spokeChanges, sync, aggVars, readVars, sweepVars>>

----------------------------------------------------------------------------
(* Environment                                                             *)

\* a spoke resource appears, disappears, changes its status or becomes unfetchable
SpokeChange ==
    /\ spokeChanges < MaxSpokeChanges
    /\ \E i \in DOMAIN spoke : \E o \in SpokeStates(store.spec.manifests, i) :
          /\ o # spoke[i]
          /\ spoke' = [spoke EXCEPT ![i] = o]
    /\ spokeChanges' = spokeChanges + 1
    /\ UNCHANGED <<store, sync, fb, writes, persisted, aggVars, readVars, sweepVars>>

NothingPersisted ==
    [sync |-> [version |-> 0, epoch |-> -1], fb |-> [version |-> 0, epoch |-> -1]]

AggIdle ==
    /\ aggGeneration = 1
    /\ aggManifests = <<>>
    /\ aggResult = <<>>

ReadIdle ==
    /\ readObj = Unstructured(ConfigMapGVK, "", "", Content(<<>>))
    /\ readRules = <<>>
    /\ readResult = <<>>

\* the sweep between two passes; result and extracted tell how syncWork ended
\* on the record it was last handed and for which manifests it read values
IdleSweep(result, extracted) ==
    [pc |-> "idle", items |-> <<>>, index |-> 0, result |-> result, extracted |-> extracted]

SweepIdle ==
    /\ works = <<>>
    /\ sweep = IdleSweep("none", {})
    /\ quietPasses = <<>>
    /\ cancelled = FALSE

Init ==
    /\ \E spec \in WorkSpecs :
          store = [resourceVersion |-> 1, generation |-> 1, spec |-> spec,
                   status |-> InitialStatus(spec.manifests)]
    /\ spoke = [i \in DOMAIN store.spec.manifests |-> Found(ContentOf(store.spec.manifests[i]))]
    /\ spokeChanges = 0
    /\ sync = IdlePass("none", 0)
    /\ fb = IdlePass("none", 0)
    /\ writes = <<>>
    /\ persisted = NothingPersisted
    /\ AggIdle
    /\ ReadIdle
    /\ SweepIdle

Next ==
    \/ SyncList
    \/ SyncListFail
    \/ SyncManifest
    \/ SyncUpdate
    \/ FbGet
    \/ FbGetFail
    \/ FbManifest
    \/ FbUpdate
    \/ SpokeChange

Spec == Init /\ [][Next]_vars

----------------------------------------------------------------------------
(* Specification of the aggregator on its own: the arguments are drawn in  *)
(* the initial state, the call is the only action.                         *)

\* condition sets a manifest entry can carry: types are unique within a set
AggOtherCondition == Condition(statusSyncConditionType, ConditionTrue, "StatusSynced", <<>>, 0)
AggConditionSets ==
    {<<>>, <<AggOtherCondition>>}
    \cup {<<Condition(resourceAvailableConditionType, s, "r", <<>>, 0)>> : s \in ConditionStatuses}
    \cup {<<AggOtherCondition, Condition(resourceAvailableConditionType, s, "r", <<>>, 0)>> :
            s \in ConditionStatuses}

AggManifestLists ==
    UNION {[1..n -> {ManifestCondition(<<>>, c, <<>>, <<>>) : c \in AggConditionSets}] :
             n \in 0..MaxAggManifests}

InitAgg ==
    /\ aggGeneration \in 1..MaxGeneration
    /\ aggManifests \in AggManifestLists
    /\ aggResult = <<>>
    /\ store = [resourceVersion |-> 1, generation |-> 1,
                spec |-> [manifests |-> <<>>, manifestConfigs |-> <<>>],
                status |-> InitialStatus(<<>>)]
    /\ spoke = <<>>
    /\ spokeChanges = 0
    /\ sync = IdlePass("none", 0)
    /\ fb = IdlePass("none", 0)
    /\ writes = <<>>
    /\ persisted = NothingPersisted
    /\ ReadIdle
    /\ SweepIdle

Aggregate ==
    /\ aggResult = <<>>
    /\ aggResult' = aggregateManifestConditions(aggGeneration, aggManifests)
    /\ UNCHANGED <<aggGeneration, aggManifests, sysVars, readVars, sweepVars>>

NextAgg == Aggregate

SpecAgg == InitAgg /\ [][NextAgg]_vars

----------------------------------------------------------------------------
(* Specification of the status reader on its own: the object and the rule  *)
(* list are drawn in the initial state; one call is made of                *)
(* getValueByJsonPath, GetValuesByRule, getSyncValues or                   *)
(* getFeedbackValues.                                                      *)

MaxPaths == 2

\* the values a status document of the model holds at a path
ReadValues ==
    {JMissing, JNoResults, JFindErr, JNull, JInt(0), JInt(2), JString("Running"), JString(""),
     JBool(TRUE), JBool(FALSE), JFloat, JMap, JSlice}

\* a status document by what it holds at .status.phase and at .status.replicas
ReadDocument(phase, replicas) ==
    Content([p \in {".status.phase", ".status.replicas"} |->
                IF p = ".status.phase" THEN phase ELSE replicas])

\* a status document that holds a value at every path of the built-in table,
\* the one at .status.availableReplicas being the given one
ReadFullDocument(availableReplicas) ==
    Content([p \in KnownPaths \ {".status", UnparsablePath} |->
                IF p = ".status.readyReplicas" THEN JInt(1)
                ELSE IF p = ".status.replicas" THEN JInt(2)
                ELSE IF p = ".status.availableReplicas" THEN availableReplicas
                ELSE IF p = ".status.succeeded" THEN JInt(1)
                ELSE IF p = ".status.phase" THEN JString("Running")
                ELSE JString("True")])

ReadDocuments ==
    {ReadDocument(v, JInt(2)) : v \in ReadValues}
    \cup {ReadDocument(JString("Running"), v) : v \in ReadValues}
    \cup {ReadFullDocument(JInt(0)), ReadFullDocument(JMap)}

\* resources of the registered kinds and of one that has no built-in paths
ReadObjects ==
    {Unstructured(gvk, "default", "res", content) :
        gvk \in {DeploymentGVK, JobGVK, PodGVK, ConfigMapGVK}, content \in ReadDocuments}

\* explicit path entries: without version, with the version of the resource,
\* with another version, and one whose expression does not parse
ReadPathEntries ==
    {JsonPath("Phase", "", ".status.phase"),
     JsonPath("Replicas", "v1", ".status.replicas"),
     JsonPath("Old", "v1beta1", ".status.phase"),
     JsonPath("Bad", "", UnparsablePath)}

ReadPathLists == UNION {[1..n -> ReadPathEntries] : n \in 0..MaxPaths}

ReadCommonFields == StatusFeedbackRule(CommonFieldsType, <<>>)
ReadJsonPathsRules == {StatusFeedbackRule(JSONPathsType, paths) : paths \in ReadPathLists}

\* rule lists: none, one rule, or the built-in rule beside one rule
ReadRuleLists ==
    {<<>>}
    \cup {<<rule>> : rule \in ReadJsonPathsRules \cup {ReadCommonFields}}
    \cup {<<ReadCommonFields, rule>> : rule \in ReadJsonPathsRules \cup {ReadCommonFields}}
    \cup {<<rule, ReadCommonFields>> : rule \in ReadJsonPathsRules}

InitRead ==
    /\ readObj \in ReadObjects
    /\ readRules \in ReadRuleLists
    /\ readResult = <<>>
    /\ store = [resourceVersion |-> 1, generation |-> 1,
                spec |-> [manifests |-> <<>>, manifestConfigs |-> <<>>],
                status |-> InitialStatus(<<>>)]
    /\ spoke = <<>>
    /\ spokeChanges = 0
    /\ sync = IdlePass("none", 0)
    /\ fb = IdlePass("none", 0)
    /\ writes = <<>>
    /\ persisted = NothingPersisted
    /\ AggIdle
    /\ SweepIdle

\* getValueByJsonPath(name, path, obj) for a path entry
ReadValue ==
    /\ readResult = <<>>
    /\ \E path \in ReadPathEntries :
          readResult' = [call |-> "getValueByJsonPath", path |-> path,
                         returned |-> getValueByJsonPath(path.name, path.path, readObj)]
    /\ UNCHANGED <<readObj, readRules, sysVars, aggVars, sweepVars>>

\* GetValuesByRule(obj, rule) for a rule of the list
ReadByRule ==
    /\ readResult = <<>>
    /\ \E k \in DOMAIN readRules :
          readResult' = [call |-> "GetValuesByRule", rule |-> readRules[k],
                         returned |-> GetValuesByRule(readObj, readRules[k])]
    /\ UNCHANGED <<readObj, readRules, sysVars, aggVars, sweepVars>>

\* getSyncValues(obj, rules)
ReadSync ==
    /\ readResult = <<>>
    /\ readResult' = [call |-> "getSyncValues", returned |-> getSyncValues(readObj, readRules)]
    /\ UNCHANGED <<readObj, readRules, sysVars, aggVars, sweepVars>>

\* getFeedbackValues(obj, rules)
ReadFeedback ==
    /\ readResult = <<>>
    /\ readResult' = [call |-> "getFeedbackValues",
                      returned |-> getFeedbackValues(readObj, readRules)]
    /\ UNCHANGED <<readObj, readRules, sysVars, aggVars, sweepVars>>

NextRead ==
    \/ ReadValue
    \/ ReadByRule
    \/ ReadSync
    \/ ReadFeedback

SpecRead == InitRead /\ [][NextRead]_vars

----------------------------------------------------------------------------
(* Specification of the sweep over several records: syncAllWorks lists the *)
(* records of the hub and hands each to syncWork, while the reconciler     *)
(* writes the same records, a user edits the manifest list of a record and *)
(* the process is told to shut down. The spoke resources of all manifests  *)
(* exist and do not change.                                                *)

\* how many consecutive passes without a change are counted per manifest
MaxQuietPasses == 2

\* ResourceStatusSyncConfiguration of a WorkManifestConfig
ResourceStatusSyncConfiguration(rules, stopSyncThreshold) ==
    [rules |-> rules, stopSyncThreshold |-> stopSyncThreshold]

\* WorkManifestConfigSpec: the configuration declared for the manifests of a kind
WorkManifestConfigSpec(manifestGVK, resourceStatusSyncConfig) ==
    [manifestGVK |-> manifestGVK, resourceStatusSyncConfig |-> resourceStatusSyncConfig]

\* the configurations of the model: Deployments stop after one probe without
\* a change, Pods never stop (the default)
WorkManifestConfigs ==
    {WorkManifestConfigSpec(DeploymentGVK, ResourceStatusSyncConfiguration(<<>>, 1)),
     WorkManifestConfigSpec(PodGVK, ResourceStatusSyncConfiguration(<<>>, 0))}

\* StopSyncThreshold declared for a kind, 0 when nothing is declared
StopSyncThresholdOf(gvk) ==
    IF \E c \in WorkManifestConfigs : c.manifestGVK = gvk
    THEN (CHOOSE c \in WorkManifestConfigs : c.manifestGVK = gvk).resourceStatusSyncConfig.stopSyncThreshold
    ELSE 0

\* a record of the hub as created and applied
Work(name, spec) ==
    [name |-> name, resourceVersion |-> 1, generation |-> 1, spec |-> spec,
     status |-> InitialStatus(spec.manifests)]

\* a manifest a user adds to a record
CacheManifest == Manifest(ConfigMapGVK, "default", "cache", TRUE, <<>>)

\* the spoke resource of every manifest of the record exists
SweepOutcomes(work) ==
    [i \in DOMAIN work.spec.manifests |-> Found(ContentOf(work.spec.manifests[i]))]

\* the manifests syncWork calls getSyncValues for: the resource was fetched
\* and a manifest config matches its group, version and kind
syncWorkExtracted(work, outcomes) ==
    {i \in DOMAIN work.spec.manifests :
        /\ buildAvailableStatusCondition(work.spec.manifests[i], outcomes[i]).err = "nil"
        /\ FindManifestConfig(work.spec.manifestConfigs, work.spec.manifests[i].gvk, 1) # 0}

RECURSIVE reconcileLoop(_, _, _, _)
\* the manifest loop of Reconcile from ordinal index on; err is the fetch
\* error that ended the pass, "nil" when the loop ran to its end
reconcileLoop(work, outcomes, index, t) ==
    IF index > Len(work.spec.manifests) THEN [work |-> work, err |-> "nil"]
    ELSE LET manifest == work.spec.manifests[index]
         IN  IF manifest.rulesNil THEN reconcileLoop(work, outcomes, index + 1, t)
             ELSE LET r == getResourceObject(manifest, outcomes[index])
                  IN  IF r.err # "nil" THEN [work |-> work, err |-> r.err]
                      ELSE reconcileLoop(reconcileManifest(work, manifest, r.obj[1], t),
                                         outcomes, index + 1, t)

InitSweep ==
    /\ \E a, b \in WorkSpecs : a # b /\ works = <<Work("work-a", a), Work("work-b", b)>>
    /\ sweep = IdleSweep("none", {})
    /\ quietPasses = [k \in DOMAIN works |-> [i \in DOMAIN works[k].spec.manifests |-> 0]]
    /\ cancelled = FALSE
    /\ store = [resourceVersion |-> 1, generation |-> 1,
                spec |-> [manifests |-> <<>>, manifestConfigs |-> <<>>],
                status |-> InitialStatus(<<>>)]
    /\ spoke = <<>>
    /\ spokeChanges = 0
    /\ sync = IdlePass("none", 0)
    /\ fb = IdlePass("none", 0)
    /\ writes = <<>>
    /\ persisted = NothingPersisted
    /\ AggIdle
    /\ ReadIdle

\* wait.Until calls syncAllWorks, which lists the records; the stop channel of
\* wait.Until is the Done channel of context.TODO(), which is never closed
AllWorksList ==
    /\ sweep.pc = "idle"
    /\ sweep' = [pc |-> IF works = <<>> THEN "idle" ELSE "records", items |-> works,
                 index |-> 1, result |-> "none", extracted |-> {}]
    /\ UNCHANGED <<works, quietPasses, cancelled, sysVars, aggVars, readVars>>

\* the number of consecutive passes that left the entry of each manifest of
\* the record as it was read
QuietAfter(quiet, originalWork, work) ==
    [i \in DOMAIN quiet |->
        IF /\ i \in DOMAIN work.status.manifestConditions
           /\ work.status.manifestConditions[i] = originalWork.status.manifestConditions[i]
        THEN IF quiet[i] < MaxQuietPasses THEN quiet[i] + 1 ELSE quiet[i]
        ELSE 0]

\* syncAllWorks: syncWork on the next listed record; an error it returns is
\* logged and the loop goes on; indexing a manifest-condition entry that does
\* not exist is a run-time panic, which ends the process
AllWorksSyncWork ==
    /\ sweep.pc = "records"
    /\ LET k == sweep.index
           originalWork == sweep.items[k]
           after(result, extracted) ==
               IF k = Len(sweep.items) THEN IdleSweep(result, extracted)
               ELSE [sweep EXCEPT !.index = k + 1, !.result = result, !.extracted = extracted]
       IN  IF Len(originalWork.spec.manifests) > Len(originalWork.status.manifestConditions) THEN
               /\ sweep' = [sweep EXCEPT !.pc = "crashed", !.result = "panic", !.extracted = {}]
               /\ UNCHANGED <<works, quietPasses>>
           ELSE
               LET outcomes == SweepOutcomes(originalWork)
                   work == syncWorkCandidate(syncWorkLoop(originalWork, outcomes, 1, now), now)
                   extracted == syncWorkExtracted(originalWork, outcomes)
               IN  /\ quietPasses' = [quietPasses EXCEPT ![k] = QuietAfter(@, originalWork, work)]
                   /\ IF StatusDeepEqual(originalWork.status, work.status) THEN
                          /\ sweep' = after("nochange", extracted)
                          /\ UNCHANGED works
                      ELSE
                          LET r == StatusUpdate(works[k], work)
                          IN  /\ works' = [works EXCEPT ![k] = r.store]
                              /\ sweep' = after(IF r.err = "nil" THEN "updated" ELSE "conflict",
                                                extracted)
    /\ UNCHANGED <<cancelled, sysVars, aggVars, readVars>>

\* Reconcile on a record of the hub, from its Get to its accepted write
ReconcileWrite ==
    /\ \E k \in DOMAIN works :
          LET r == reconcileLoop(works[k], SweepOutcomes(works[k]), 1, now)
          IN  /\ r.err = "nil"
              /\ ~StatusDeepEqual(works[k].status, r.work.status)
              /\ works' = [works EXCEPT ![k] = StatusUpdate(works[k], r.work).store]
    /\ UNCHANGED <<sweep, quietPasses, cancelled, sysVars, aggVars, readVars>>

\* the manifest lists a user can turn the given one into: the same manifests
\* in reverse order, or one more manifest at the end
EditedManifests(manifests) ==
    {[i \in DOMAIN manifests |-> manifests[Len(manifests) + 1 - i]],
     Append(manifests, CacheManifest)}

\* a user edits the manifest list of a record: the generation moves, the
\* status is left as it is until the manifests are applied again
EditManifests ==
    /\ \E k \in DOMAIN works :
          /\ works[k].generation < MaxGeneration
          /\ \E manifests \in EditedManifests(works[k].spec.manifests) :
                /\ works' = [works EXCEPT ![k].spec.manifests = manifests,
                                          ![k].generation = @ + 1,
                                          ![k].resourceVersion = @ + 1]
                /\ quietPasses' = [quietPasses EXCEPT ![k] = [i \in DOMAIN manifests |-> 0]]
    /\ UNCHANGED <<sweep, cancelled, sysVars, aggVars, readVars>>

\* the process is told to shut down
Shutdown ==
    /\ ~cancelled
    /\ cancelled' = TRUE
    /\ UNCHANGED <<works, sweep, quietPasses, sysVars, aggVars, readVars>>

NextSweep ==
    \/ AllWorksList
    \/ AllWorksSyncWork
    \/ ReconcileWrite
    \/ EditManifests
    \/ Shutdown

SpecSweep == InitSweep /\ [][NextSweep]_vars

----------------------------------------------------------------------------
(* Specification of the reconciler on a record that a user can delete:     *)
(* Reconcile is called for the name of the record whether or not the hub   *)
(* still holds it (the deletion itself is an event that triggers a pass).  *)
(* The sweep is left out; the record is deleted between two passes.        *)

\* the hub holds no record under the name: what is left is the zero Work
Gone == store = NoWork

\* variant: the NotFound answer of the read is returned as the error of the pass
FbGetNotFoundAsError ==
    /\ fb.pc = "idle"
    /\ Gone
    /\ fb' = [IdlePass("notFound", 0) EXCEPT !.err = "NotFound"]
    /\ UNCHANGED <<store, spoke, spokeChanges, sync, writes, persisted, aggVars, readVars, sweepVars>>

\* Reconcile: the read answers NotFound; the pass returns ctrl.Result{} and nil
FbGetNotFound ==
    /\ fb.pc = "idle"
    /\ Gone
    /\ fb' = IdlePass("notFound", 0)
    /\ UNCHANGED <<store, spoke, spokeChanges, sync, writes, persisted, aggVars, readVars, sweepVars>>

\* Reconcile: the read answers with the record the hub holds
FbGetPresent == ~Gone /\ FbGet

\* the resource of a manifest of the record changes on the spoke
SpokeChangePresent == ~Gone /\ SpokeChange

\* a user deletes the record
DeleteWork ==
    /\ ~Gone
    /\ fb.pc = "idle"
    /\ store' = NoWork
    /\ UNCHANGED <<spoke, spokeChanges, sync, fb, writes, persisted, aggVars, readVars, sweepVars>>

NextDelete ==
    \/ FbGetPresent
    \/ FbGetNotFound
    \/ FbGetFail
    \/ FbManifest
    \/ FbUpdate
    \/ SpokeChangePresent
    \/ DeleteWork

SpecDelete == Init /\ [][NextDelete]_vars

----------------------------------------------------------------------------
(* Properties of aggregateManifestConditions (checked under SpecAgg)       *)

\* the manifest entry carries an Available condition with the given status
HasAvailable(manifest, status) ==
    \E k \in DOMAIN manifest.conditions :
        /\ manifest.conditions[k].type = resourceAvailableConditionType
        /\ manifest.conditions[k].status = status

\* number of entries of the argument list with Available = status
NumWith(status) ==
    Cardinality({i \in DOMAIN aggManifests : HasAvailable(aggManifests[i], status)})

Aggregated == aggResult # <<>>

\* C1: when at least one manifest has Available=False, the result is False with
\* reason ResourcesNotAvailable and message "<falseCount> of <total> resources
\* are not available", total being the length of the list, whatever the number
\* of True and Unknown manifests and whatever the generation.
C1_AnyFalseGivesFalse ==
    (Aggregated /\ NumWith(ConditionFalse) > 0) =>
        /\ aggResult.type = resourceAvailableConditionType
        /\ aggResult.status = ConditionFalse
        /\ aggResult.reason = "ResourcesNotAvailable"
        /\ aggResult.message = <<Dec(NumWith(ConditionFalse)), " of ", Dec(Len(aggManifests)),
                                 " resources are not available">>
        /\ aggResult.observedGeneration = aggGeneration

\* {False, True, Unknown} aggregated to "1 of 3 resources are not available"
C1_Witness ==
    /\ Aggregated
    /\ Len(aggManifests) = 3
    /\ NumWith(ConditionFalse) = 1 /\ NumWith(ConditionTrue) = 1 /\ NumWith(ConditionUnknown) = 1
    /\ aggResult.status = ConditionFalse
    /\ aggResult.message = <<"1", " of ", "3", " resources are not available">>

\* C2 as stated: with no Available=False and at least one Available=Unknown the
\* result is Unknown, reason ResourcesStatusUnknown, message
\* "<unknownCount> of <total> have unknown status".
C2_AsStated ==
    (Aggregated /\ NumWith(ConditionFalse) = 0 /\ NumWith(ConditionUnknown) > 0) =>
        /\ aggResult.status = ConditionUnknown
        /\ aggResult.reason = "ResourcesStatusUnknown"
        /\ aggResult.message = <<Dec(NumWith(ConditionUnknown)), " of ", Dec(Len(aggManifests)),
                                 " have unknown status">>

\* C2 (amended): with no Available=False and at least one Available=Unknown the
\* result is Unknown, reason ResourcesStatusUnknown, message
\* "<unknownCount> of <total> resources have unknown status".
C2_AnyUnknownGivesUnknown ==
    (Aggregated /\ NumWith(ConditionFalse) = 0 /\ NumWith(ConditionUnknown) > 0) =>
        /\ aggResult.type = resourceAvailableConditionType
        /\ aggResult.status = ConditionUnknown
        /\ aggResult.reason = "ResourcesStatusUnknown"
        /\ aggResult.message = <<Dec(NumWith(ConditionUnknown)), " of ", Dec(Len(aggManifests)),
                                 " resources have unknown status">>

\* an Unknown manifest beside a True one and one without Available condition
C2_Witness ==
    /\ Aggregated
    /\ Len(aggManifests) = 3
    /\ NumWith(ConditionFalse) = 0 /\ NumWith(ConditionUnknown) = 1 /\ NumWith(ConditionTrue) = 1
    /\ aggResult.status = ConditionUnknown
    /\ aggResult.message = <<"1", " of ", "3", " resources have unknown status">>

\* C3: when no manifest has Available False, Unknown or True (the empty list
\* included), the result is Unknown, reason ResourcesStatusUnknown, message
\* "cannot get any available resource".
C3_NoneAvailableGivesUnknown ==
    (Aggregated /\ NumWith(ConditionFalse) = 0 /\ NumWith(ConditionUnknown) = 0
        /\ NumWith(ConditionTrue) = 0) =>
        /\ aggResult.type = resourceAvailableConditionType
        /\ aggResult.status = ConditionUnknown
        /\ aggResult.reason = "ResourcesStatusUnknown"
        /\ aggResult.message = <<"cannot get any available resource">>

\* two manifests that carry conditions, none of type Available
C3_Witness ==
    /\ Aggregated
    /\ Len(aggManifests) = 2
    /\ \A i \in 1..2 : aggManifests[i].conditions # <<>>
    /\ \A s \in ConditionStatuses : NumWith(s) = 0
    /\ aggResult.message = <<"cannot get any available resource">>

\* C4: the result is True with reason ResourcesAvailable exactly when the list
\* is non-empty and every manifest of the list has Available=True.
C4_TrueIffAllTrue ==
    Aggregated =>
        ((aggResult.status = ConditionTrue /\ aggResult.reason = "ResourcesAvailable")
            <=> (Len(aggManifests) > 0
                 /\ \A i \in DOMAIN aggManifests : HasAvailable(aggManifests[i], ConditionTrue)))

----------------------------------------------------------------------------
(* Properties of the passes (checked under Spec)                           *)

\* the Available condition of a manifest-condition entry is the given one
AvailableIs(entry, status, reason) ==
    \E k \in DOMAIN entry.conditions :
        /\ entry.conditions[k].type = resourceAvailableConditionType
        /\ entry.conditions[k].status = status
        /\ entry.conditions[k].reason = reason

\* the pass p of controller c reads the record as c's last accepted write left
\* it, and the spoke resources are what every fetch of that write's pass saw
Unchanged(p, c) ==
    /\ p.originalWork.resourceVersion = persisted[c].version
    /\ persisted[c].epoch = p.startEpoch
    /\ spokeChanges = p.startEpoch

\* C5: after a pass persisted its candidate, with the spoke resources, the
\* rules and the record unchanged, the next pass of that controller computes a
\* candidate equal to the status that write stored and ends without a status write.
C5_Idempotent ==
    [][/\ (sync.pc = "update" /\ Unchanged(sync, "sync")) =>
            /\ StatusDeepEqual(syncWorkCandidate(sync.work, now).status, sync.originalWork.status)
            /\ (sync'.pc = "idle" => (sync'.result = "nochange" /\ store' = store))
       /\ (fb.pc # "idle" /\ Unchanged(fb, "fb") /\ fb'.pc = "idle") =>
            /\ fb.pc = "update"
            /\ StatusDeepEqual(fb.work.status, fb.originalWork.status)
            /\ fb'.result = "nochange"
            /\ store' = store]_vars

\* a level-triggered pass about to compare, on the record its previous pass wrote
C5_Witness ==
    /\ sync.pc = "update"
    /\ Unchanged(sync, "sync")
    /\ persisted.sync.version > 1
    /\ spoke[1] = NotFound

\* the values and the condition getSyncValues yields for the manifest at ordinal i
ExpectedSync(work, i) ==
    LET k == FindManifestConfig(work.spec.manifestConfigs, work.spec.manifests[i].gvk, 1)
        m == work.spec.manifests[i]
    IN  getSyncValues(Unstructured(m.gvk, m.namespace, m.name, spoke[i].content),
                      work.spec.manifestConfigs[k].statusSyncRules)

\* the entry at ordinal i reports the resource as available with its extracted values
SiblingReported(work, entry, i) ==
    /\ AvailableIs(entry, ConditionTrue, "ResourceAvailable")
    /\ FindManifestConfig(work.spec.manifestConfigs, work.spec.manifests[i].gvk, 1) # 0 =>
          /\ entry.statusSync = ExpectedSync(work, i).values
          /\ \E k \in DOMAIN entry.conditions :
                /\ entry.conditions[k].type = statusSyncConditionType
                /\ entry.conditions[k].status = ExpectedSync(work, i).condition.status
                /\ entry.conditions[k].reason = ExpectedSync(work, i).condition.reason

\* C6: in syncWork a manifest whose fetch fails with NotFound gets
\* Available=False, and every sibling whose resource exists gets Available=True
\* and its extracted values in the candidate of the same pass, which is what an
\* accepted write stores.
C6_SyncIsolation ==
    [][(sync.pc = "update" /\ sync.startEpoch = spokeChanges) =>
          \A i \in DOMAIN spoke :
             spoke[i] = NotFound =>
                /\ AvailableIs(sync.work.status.manifestConditions[i], ConditionFalse,
                               "ResourceNotAvailable")
                /\ \A j \in DOMAIN spoke :
                      spoke[j].kind = "Found" =>
                         /\ SiblingReported(sync.work, sync.work.status.manifestConditions[j], j)
                         /\ sync'.result = "updated" =>
                               SiblingReported(sync.work, store'.status.manifestConditions[j], j)
      ]_vars

\* the first resource is missing, the second exists and its phase was extracted
C6_Witness ==
    /\ sync.pc = "update"
    /\ sync.startEpoch = spokeChanges
    /\ spoke[1] = NotFound
    /\ spoke[2].kind = "Found"
    /\ Len(sync.work.spec.manifestConfigs) = 2
    /\ Len(sync.work.status.manifestConditions[2].statusSync) = 1
    /\ AvailableIs(sync.work.status.manifestConditions[1], ConditionFalse, "ResourceNotAvailable")

\* the values and the condition getFeedbackValues yields for the manifest at ordinal j
ExpectedFeedback(work, j) ==
    LET m == work.spec.manifests[j]
    IN  getFeedbackValues(Unstructured(m.gvk, m.namespace, m.name, spoke[j].content),
                          m.statusFeedbackRules)

\* C7: in Reconcile a failure to resolve or fetch the resource of one manifest
\* affects that manifest only: when the pass ends without a write conflict, the
\* stored entry of every manifest that has rules and whose resource exists
\* carries the values and the outcome condition extracted from that resource.
C7_ReconcileIsolation ==
    [][(fb.pc # "idle" /\ fb'.pc = "idle" /\ fb.startEpoch = spokeChanges
            /\ fb'.result # "conflict") =>
          \A j \in DOMAIN spoke :
             (~fb.work.spec.manifests[j].rulesNil /\ spoke[j].kind = "Found") =>
                /\ store'.status.manifestConditions[j].statusFeedbacks
                      = ExpectedFeedback(fb.work, j).values
                /\ \E k \in DOMAIN store'.status.manifestConditions[j].conditions :
                      /\ store'.status.manifestConditions[j].conditions[k].type
                            = statusFeedbackConditionType
                      /\ store'.status.manifestConditions[j].conditions[k].reason
                            = ExpectedFeedback(fb.work, j).condition.reason
      ]_vars

\* the pass of controller-locals p is about to attempt a write that was
\* computed from a resourceVersion that is no longer the stored one
StaleWrite(p, candidate) ==
    /\ p.pc = "update"
    /\ ~StatusDeepEqual(p.originalWork.status, candidate.status)
    /\ candidate.resourceVersion # store.resourceVersion

\* C8: a status write rejected because the stored resourceVersion differs from
\* the one the pass read leaves the stored record as it was, and the controller
\* is back between passes (not crashed), free to start the next one.
C8_ConflictLeavesStore ==
    [][/\ (StaleWrite(sync, syncWorkCandidate(sync.work, now)) /\ sync'.pc # "update") =>
            (store' = store /\ sync'.pc = "idle" /\ sync'.result = "conflict")
       /\ (StaleWrite(fb, fb.work) /\ fb'.pc # "update") =>
            (store' = store /\ fb'.pc = "idle" /\ fb'.result = "conflict")]_vars

\* the edge-triggered pass has just had its write rejected
C8_Witness ==
    /\ fb.pc = "idle"
    /\ fb.result = "conflict"
    /\ store.resourceVersion > 1

\* C9: two passes that computed their candidates from the same stored version
\* never both have their write accepted: the k-th accepted write was computed
\* from the version the (k-1)-th one stored, so no accepted write replaces a
\* status stored after its pass read the record; and every pass, the one after
\* a rejected write included, starts from the record as stored at that moment.
C9_NoLostUpdate ==
    /\ [](/\ \A k \in DOMAIN writes : writes[k] = k
          /\ store.resourceVersion = Len(writes) + 1)
    /\ [][/\ (sync.pc = "idle" /\ sync'.pc \notin {"idle", "crashed"}) =>
               (sync'.originalWork = store /\ sync'.work = store)
          /\ (fb.pc = "idle" /\ fb'.pc # "idle") =>
               (fb'.originalWork = store /\ fb'.work = store)]_vars

\* both passes read the same version; the edge-triggered write was accepted
\* and the level-triggered pass is about to attempt its own
C9_Witness ==
    /\ fb.pc = "idle" /\ fb.result = "updated"
    /\ StaleWrite(sync, syncWorkCandidate(sync.work, now))
    /\ writes # <<>>
    /\ writes[Len(writes)] = sync.originalWork.resourceVersion

\* C10: a pass attempts at most one status write and the attempt is its last
\* step: a pass in progress has attempted none, and after a rejected write the
\* controller is between passes.
C10_NoRetryInPass ==
    /\ sync.attempts <= 1 /\ fb.attempts <= 1
    /\ sync.pc \in {"manifests", "update"} => sync.attempts = 0
    /\ fb.pc \in {"manifests", "update"} => fb.attempts = 0
    /\ sync.result = "conflict" => (sync.pc = "idle" /\ sync.attempts = 1)
    /\ fb.result = "conflict" => (fb.pc = "idle" /\ fb.attempts = 1)

\* the level-triggered pass ended on its one rejected write
C10_Witness ==
    /\ sync.pc = "idle"
    /\ sync.result = "conflict"
    /\ sync.attempts = 1

----------------------------------------------------------------------------
(* How the passes report their outcome                                     *)

\* what the controller runtime does with the (ctrl.Result, error) pair that
\* Reconcile returned: a non-nil error is requeued through the rate limiter
\* (backoff) whatever the Result says, otherwise RequeueAfter is honoured
NextPassSchedule(p) ==
    IF p.err # "nil" THEN "rateLimited"
    ELSE IF p.requeueAfter THEN "afterInterval"
    ELSE "none"

\* C11: a status write rejected as a conflict is not treated as an error:
\* Reconcile returns a nil error and its next pass is scheduled after the
\* interval as after a success, and the sweep logs no error for the record.
C11_ConflictNotAnError ==
    /\ fb.result = "conflict" =>
          (fb.err = "nil" /\ NextPassSchedule(fb) = "afterInterval")
    /\ sync.result = "conflict" => ~sync.errorLogged

\* C12: when the rebuilt status (workload conditions, per-manifest conditions
\* and values) is structurally equal to the status the pass read, the pass
\* ends without a status write and without error; Reconcile still asks for
\* the next pass after the interval.
C12_NoOpSkipsWrite ==
    [][/\ (sync.pc = "update" /\ sync' # sync
             /\ syncWorkCandidate(sync.work, now).status = sync.originalWork.status) =>
            /\ store' = store /\ writes' = writes
            /\ sync'.pc = "idle" /\ sync'.attempts = 0 /\ sync'.err = "nil"
       /\ (fb.pc = "update" /\ fb' # fb /\ fb.work.status = fb.originalWork.status) =>
            /\ store' = store /\ writes' = writes
            /\ fb'.pc = "idle" /\ fb'.attempts = 0 /\ fb'.err = "nil"
            /\ NextPassSchedule(fb') = "afterInterval"]_vars

\* the edge-triggered pass re-extracted the values it had stored before and is
\* about to compare
C12_Witness ==
    /\ fb.pc = "update"
    /\ fb.work.status = fb.originalWork.status
    /\ \E i \in DOMAIN fb.work.status.manifestConditions :
          fb.work.status.manifestConditions[i].statusFeedbacks # <<>>

\* the pass with locals p is between its read and its end
InPass(p) == p.pc \in {"manifests", "update"}

\* the stored record after the whole status was replaced by the given one
Replaced(st, status) == [st EXCEPT !.status = status, !.resourceVersion = @ + 1]

\* C13: a pass works on a copy and never changes the record it read; the
\* stored status changes only as a whole, at the last step of one pass, to
\* exactly the candidate of that pass: no step of a pass in progress stores
\* a part of what it has built.
C13_AtomicReplacement ==
    [][/\ (InPass(sync) /\ InPass(sync')) => sync'.originalWork = sync.originalWork
       /\ (InPass(fb) /\ InPass(fb')) => fb'.originalWork = fb.originalWork
       /\ store' # store =>
            \/ /\ sync.pc = "update" /\ sync'.pc = "idle" /\ fb' = fb
               /\ store' = Replaced(store, syncWorkCandidate(sync.work, now).status)
            \/ /\ fb.pc = "update" /\ fb'.pc = "idle" /\ sync' = sync
               /\ store' = Replaced(store, fb.work.status)]_vars

\* the level-triggered write was accepted while the edge-triggered pass holds
\* a half-built status of its own
C13_Witness ==
    /\ sync.pc = "idle" /\ sync.result = "updated"
    /\ fb.pc = "manifests" /\ fb.index = 2
    /\ fb.work.status # fb.originalWork.status
    /\ store.status # fb.work.status
    /\ store.status # fb.originalWork.status

\* the condition of the given type in a condition list without its
\* lastTransitionTime, <<>> if the list has none
ConditionOf(conditions, type) ==
    LET k == FindStatusCondition(conditions, type, 1)
    IN  IF k = 0 THEN <<>>
        ELSE <<[type |-> conditions[k].type, status |-> conditions[k].status,
                reason |-> conditions[k].reason, message |-> conditions[k].message]>>

\* what a level-triggered pass reports in a status: the workload-level
\* Available condition and, per manifest, the Available condition, the
\* StatusSynced condition and the synced values
SyncReport(status) ==
    [available |-> ConditionOf(status.conditions, resourceAvailableConditionType),
     manifests |->
        [i \in DOMAIN status.manifestConditions |->
            [available |-> ConditionOf(status.manifestConditions[i].conditions,
                                       resourceAvailableConditionType),
             synced |-> ConditionOf(status.manifestConditions[i].conditions,
                                    statusSyncConditionType),
             values |-> status.manifestConditions[i].statusSync]]]

\* the record with the per-manifest conditions and values it had before any pass
WithoutHistory(work) ==
    [work EXCEPT !.status.manifestConditions = InitialStatus(work.spec.manifests).manifestConditions]

\* the candidate a level-triggered pass builds from the record on the live resources
SyncCandidateOf(work) == syncWorkCandidate(syncWorkLoop(work, spoke, 1, now), now)

\* C14: the candidate of a pass is a function of the live resources and the
\* rules only: a pass on the stored record and a pass on a record that differs
\* from it only in the persisted per-manifest conditions and values report the
\* same availability, extraction outcome and values.
C14_FullRecomputation ==
    SyncReport(SyncCandidateOf(store).status)
        = SyncReport(SyncCandidateOf(WithoutHistory(store)).status)

----------------------------------------------------------------------------
(* The passes under fair scheduling: the sweep is started again at every   *)
(* interval (wait.Until) and Reconcile is requeued after every pass on an  *)
(* existing record, so a controller that stays idle eventually starts a    *)
(* pass that reads the record; a pass that was started runs to its end.    *)
(* The failures of the hub reads and the changes of the spoke resources    *)
(* are not forced.                                                         *)

SpecFair ==
    /\ Init /\ [][Next]_vars
    /\ WF_vars(SyncList) /\ []<>(sync.pc = "idle")
    /\ WF_vars(FbGet) /\ []<>(fb.pc = "idle")

\* the stored status is what a level-triggered pass on the live resources builds
LiveSync == SyncCandidateOf(store).status = store.status

\* the stored entry of every manifest that has feedback rules and whose
\* resource exists carries the values and the outcome extracted from it
LiveFeedback ==
    \A j \in DOMAIN spoke :
        (~store.spec.manifests[j].rulesNil /\ spoke[j].kind = "Found") =>
            /\ store.status.manifestConditions[j].statusFeedbacks
                  = ExpectedFeedback(store, j).values
            /\ ConditionOf(store.status.manifestConditions[j].conditions,
                           statusFeedbackConditionType)
                  = ConditionOf(<<ExpectedFeedback(store, j).condition>>,
                                statusFeedbackConditionType)

\* C15: once the spoke resources have stopped changing, under fair scheduling
\* of the passes the stored status eventually is, and stays, the status
\* computed from the live resources by both disciplines, and from then on no
\* pass writes.
C15_EventuallyConsistent ==
    /\ <>[](LiveSync /\ LiveFeedback)
    /\ <>[][store' = store]_vars

----------------------------------------------------------------------------
(* Properties of the per-manifest steps (checked under Spec)               *)

\* the triple buildAvailableStatusCondition returned carries the given
\* status and reason under type Available, and the given error
Built(built, status, reason, err) ==
    /\ built.condition.type = resourceAvailableConditionType
    /\ built.condition.status = status
    /\ built.condition.reason = reason
    /\ built.err = err

\* C16: whenever the level-triggered pass calls buildAvailableStatusCondition
\* for a manifest, the result is False / ResourceNotAvailable with the error
\* when the fetch fails NotFound, Unknown / FetchingResourceFailed with the
\* error when it fails otherwise, Unknown / IncompletedResourceMeta with the
\* error when the resource identity cannot be resolved, and True /
\* ResourceAvailable with the fetched object and no error when it succeeds.
C16_AvailabilityMapping ==
    [][(sync.pc = "manifests" /\ sync' # sync /\ sync'.pc # "crashed") =>
          LET manifest == sync.work.spec.manifests[sync.index]
              outcome == spoke[sync.index]
              built == buildAvailableStatusCondition(manifest, outcome)
          IN  /\ outcome.kind = "NotFound" =>
                    (Built(built, ConditionFalse, "ResourceNotAvailable", "NotFound")
                     /\ built.obj = <<>>)
              /\ outcome.kind = "OtherErr" =>
                    (Built(built, ConditionUnknown, "FetchingResourceFailed", "OtherErr")
                     /\ built.obj = <<>>)
              /\ outcome.kind = "DecodeErr" =>
                    (Built(built, ConditionUnknown, "IncompletedResourceMeta", "DecodeErr")
                     /\ built.obj = <<>>)
              /\ outcome.kind = "Found" =>
                    (Built(built, ConditionTrue, "ResourceAvailable", "nil")
                     /\ built.obj = <<Unstructured(manifest.gvk, manifest.namespace,
                                                   manifest.name, outcome.content)>>)
      ]_vars

\* a pass went through a manifest whose identity did not resolve and a
\* manifest whose resource was fetched
C16_Witness ==
    /\ sync.pc = "update" /\ sync.startEpoch = spokeChanges
    /\ spoke[1] = DecodeErr /\ spoke[2].kind = "Found"
    /\ AvailableIs(sync.work.status.manifestConditions[1], ConditionUnknown,
                   "IncompletedResourceMeta")
    /\ AvailableIs(sync.work.status.manifestConditions[2], ConditionTrue, "ResourceAvailable")

\* the level-triggered step for a manifest whose resource is not available
\* sets the Available condition buildAvailableStatusCondition returned and
\* leaves the extraction outcome and the values of the entry alone
SyncSkipsExtraction ==
    (sync.pc = "manifests" /\ sync' # sync /\ sync'.pc # "crashed"
        /\ spoke[sync.index].kind # "Found") =>
       LET i == sync.index
           built == buildAvailableStatusCondition(sync.work.spec.manifests[i], spoke[i])
           old == sync.work.status.manifestConditions[i]
           new == sync'.work.status.manifestConditions[i]
       IN  /\ built.condition.status # ConditionTrue
           /\ ConditionOf(new.conditions, resourceAvailableConditionType)
                 = ConditionOf(<<built.condition>>, resourceAvailableConditionType)
           /\ ConditionOf(new.conditions, statusSyncConditionType)
                 = ConditionOf(old.conditions, statusSyncConditionType)
           /\ new.statusSync = old.statusSync
           /\ sync'.pc \in {"manifests", "update"}

\* an accepted level-triggered write stores the Available conditions of the candidate
SyncPersistsAvailability ==
    (sync.pc = "update" /\ sync'.result = "updated") =>
       \A i \in DOMAIN sync.work.status.manifestConditions :
          ConditionOf(store'.status.manifestConditions[i].conditions,
                      resourceAvailableConditionType)
             = ConditionOf(sync.work.status.manifestConditions[i].conditions,
                           resourceAvailableConditionType)

\* the edge-triggered step for a manifest whose resource is not available
\* leaves an availability condition that is not True on the entry, extracts
\* nothing, and the pass goes on towards its write
FbSkipsExtraction ==
    (fb.pc = "manifests" /\ fb' # fb /\ ~fb.work.spec.manifests[fb.index].rulesNil
        /\ spoke[fb.index].kind # "Found") =>
       /\ fb'.pc \in {"manifests", "update"}
       /\ \E s \in {ConditionFalse, ConditionUnknown} :
             HasAvailable(fb'.work.status.manifestConditions[fb.index], s)
       /\ fb'.work.status.manifestConditions[fb.index].statusFeedbacks
             = fb.work.status.manifestConditions[fb.index].statusFeedbacks

\* C17: for a manifest whose availability is not True in a pass (NotFound,
\* other fetch error, unresolvable identity) the pass of either discipline
\* still sets the manifest's availability condition in the candidate, which
\* is what its write stores, and runs no extraction for that manifest.
C17_UnavailableStillReported ==
    [][SyncSkipsExtraction /\ SyncPersistsAvailability /\ FbSkipsExtraction]_vars

----------------------------------------------------------------------------
(* Properties of the status reader (checked under SpecRead)                *)

\* the runtime type of what the document of obj holds at a path
Held(obj, path) == obj.content[path].t

\* evaluating a path entry on obj produces an error: its version is not the
\* one of the resource (explicit entries only), its expression does not
\* parse or evaluate, or the value is neither integer, string nor boolean
EntryFails(obj, entry, explicit) ==
    \/ explicit /\ entry.version # "" /\ entry.version # obj.gvk.version
    \/ entry.path = UnparsablePath
    \/ Held(obj, entry.path) \in {"finderror", "float64", "map", "slice"}

\* evaluating a path entry on obj produces a value
EntryYields(obj, entry, explicit) ==
    /\ ~EntryFails(obj, entry, explicit)
    /\ Held(obj, entry.path) \in {"int64", "string", "bool"}

\* the path entries a rule stands for on obj
RuleEntries(obj, rule) ==
    IF rule.type = CommonFieldsType THEN GetPathsByKind(obj.gvk) ELSE rule.jsonPaths

RuleFails(obj, rule) ==
    \/ rule.type = CommonFieldsType /\ RuleEntries(obj, rule) = <<>>
    \/ \E k \in DOMAIN RuleEntries(obj, rule) :
          EntryFails(obj, RuleEntries(obj, rule)[k], rule.type = JSONPathsType)

RuleYields(obj, rule) ==
    \E k \in DOMAIN RuleEntries(obj, rule) :
        EntryYields(obj, RuleEntries(obj, rule)[k], rule.type = JSONPathsType)

\* the text holds the given piece
Mentions(message, piece) == \E k \in DOMAIN message : message[k] = piece

ReadCalled(call) == readResult # <<>> /\ readResult.call = call

\* the outcome condition returned for the rule list, with the names the
\* calling discipline gives to its three outcomes
OutcomeAsClaimed(condition, type, failedReason, noneReason, someReason, prefix) ==
    LET failed == \E k \in DOMAIN readRules : RuleFails(readObj, readRules[k])
        yielded == \E k \in DOMAIN readRules : RuleYields(readObj, readRules[k])
    IN  /\ condition.type = type
        /\ failed <=> condition.status = ConditionFalse
        /\ failed =>
              /\ condition.reason = failedReason
              /\ Head(condition.message) = prefix
              /\ \A k \in DOMAIN readRules :
                    \A j \in DOMAIN RuleEntries(readObj, readRules[k]) :
                       EntryFails(readObj, RuleEntries(readObj, readRules[k])[j],
                                  readRules[k].type = JSONPathsType)
                          => Mentions(condition.message,
                                      RuleEntries(readObj, readRules[k])[j].name)
        /\ (~failed /\ ~yielded) =>
              (condition.status = ConditionTrue /\ condition.reason = noneReason
               /\ readResult.returned.values = <<>>)
        /\ (~failed /\ yielded) =>
              (condition.status = ConditionTrue /\ condition.reason = someReason
               /\ readResult.returned.values # <<>>)

\* C18: for every rule list and status document the condition returned by
\* getSyncValues / getFeedbackValues is False with reason "...SyncFailed" and
\* a message carrying the aggregated error text iff at least one rule or path
\* produced an error; otherwise True with reason "No...Synced" when no value
\* was produced and True with reason "...Synced" when at least one was.
C18_ExtractionOutcome ==
    /\ ReadCalled("getSyncValues") =>
          OutcomeAsClaimed(readResult.returned.condition, statusSyncConditionType,
                           "StatusSyncFailed", "NoStatusSynced", "StatusSynced",
                           "Sync status failed with error ")
    /\ ReadCalled("getFeedbackValues") =>
          OutcomeAsClaimed(readResult.returned.condition, statusFeedbackConditionType,
                           "StatusFeedbackSyncFailed", "NoStatusFeedbackSynced",
                           "StatusFeedbackSynced", "Sync status feedback failed with error ")

\* rules were given and evaluated without error, and none matched a value
C18_Witness ==
    /\ ReadCalled("getSyncValues")
    /\ Len(readRules) = 2
    /\ \E k \in DOMAIN readRules : readRules[k].type = JSONPathsType /\ readRules[k].jsonPaths # <<>>
    /\ readResult.returned.condition.reason = "NoStatusSynced"

\* the names of the values in a value list, in order
Names(values) == [k \in DOMAIN values |-> values[k].name]

\* the names of the entries of a rule that yield a value on obj, in entry order
YieldedNames(obj, rule) ==
    Names(SelectSeq(RuleEntries(obj, rule),
                    LAMBDA entry : EntryYields(obj, entry, rule.type = JSONPathsType)))

\* the number of errors the entries of a rule produce on obj
NumFailing(obj, rule) ==
    IF rule.type = CommonFieldsType /\ RuleEntries(obj, rule) = <<>> THEN 1
    ELSE Cardinality({k \in DOMAIN RuleEntries(obj, rule) :
                        EntryFails(obj, RuleEntries(obj, rule)[k], rule.type = JSONPathsType)})

RECURSIVE YieldedNamesOfRules(_, _)
YieldedNamesOfRules(obj, rules) ==
    IF rules = <<>> THEN <<>>
    ELSE YieldedNames(obj, Head(rules)) \o YieldedNamesOfRules(obj, Tail(rules))

Absent(obj, path) == Held(obj, path) \in {"missing", "noresults", "nil"}

\* the entries of a rule that are evaluated on obj and find nothing
AbsentEntries(obj, rule) ==
    {k \in DOMAIN RuleEntries(obj, rule) :
        /\ ~EntryFails(obj, RuleEntries(obj, rule)[k], rule.type = JSONPathsType)
        /\ Absent(obj, RuleEntries(obj, rule)[k].path)}

\* C20: getValueByJsonPath returns no value and no error when the path names
\* a missing key, when the expression yields no result and when the value is
\* null; such a path adds neither a value nor an error to the output of its
\* rule, which holds one value or one error for each of the other paths.
C20_AbsentIsNotAnError ==
    /\ (ReadCalled("getValueByJsonPath") /\ readResult.path.path # UnparsablePath
          /\ Absent(readObj, readResult.path.path)) =>
          (readResult.returned.value = <<>> /\ readResult.returned.err = <<>>)
    /\ (ReadCalled("GetValuesByRule") /\ RuleEntries(readObj, readResult.rule) # <<>>) =>
          Len(readResult.returned.values) + Len(readResult.returned.errs)
             = Len(RuleEntries(readObj, readResult.rule))
               - Cardinality(AbsentEntries(readObj, readResult.rule))

\* a rule whose first path finds null and whose second path finds a value
C20_Witness ==
    /\ ReadCalled("GetValuesByRule")
    /\ readResult.rule.type = JSONPathsType
    /\ Len(readResult.rule.jsonPaths) = 2
    /\ Held(readObj, readResult.rule.jsonPaths[1].path) = "nil"
    /\ AbsentEntries(readObj, readResult.rule) = {1}
    /\ Len(readResult.returned.values) = 1
    /\ readResult.returned.errs = <<>>

\* the runtime types of a document value that have no FieldValue variant
UnsupportedTypes == {"float64", "map", "slice"}

\* C21: getValueByJsonPath fails with an error and returns no value whenever
\* the value at the path is a map, a slice or of any runtime type other than
\* integer, string or boolean (a floating-point number for one); a value is
\* returned only for a value of one of the three supported types.
C21_UnsupportedTypeIsAnError ==
    (ReadCalled("getValueByJsonPath") /\ readResult.path.path # UnparsablePath) =>
        /\ Held(readObj, readResult.path.path) \in UnsupportedTypes =>
              /\ readResult.returned.value = <<>>
              /\ readResult.returned.err =
                    <<<<"the type ", Held(readObj, readResult.path.path),
                        " of the value for ", readResult.path.name, " is not found">>>>
        /\ readResult.returned.value # <<>> =>
              Held(readObj, readResult.path.path) \in {"int64", "string", "bool"}

\* the path finds a floating-point number and the call returned an error
C21_Witness ==
    /\ ReadCalled("getValueByJsonPath")
    /\ readResult.path.path # UnparsablePath
    /\ Held(readObj, readResult.path.path) = "float64"
    /\ readResult.returned.value = <<>>
    /\ readResult.returned.err # <<>>

\* C22: for an integer, string or boolean value v at the path,
\* getValueByJsonPath(name, path, obj) returns no error and one value whose
\* name is the given name, whose type is the variant of v, whose payload of
\* that variant is v and whose other payload fields are unset.
C22_ScalarRoundTrip ==
    (ReadCalled("getValueByJsonPath") /\ readResult.path.path # UnparsablePath) =>
        LET v == readObj.content[readResult.path.path]
            name == readResult.path.name
        IN  /\ v.t = "int64" =>
                  readResult.returned =
                     [value |-> <<[name |-> name,
                                   value |-> [type |-> "Integer", integer |-> <<v.i>>,
                                              string |-> <<>>, boolean |-> <<>>]]>>,
                      err |-> <<>>]
            /\ v.t = "string" =>
                  readResult.returned =
                     [value |-> <<[name |-> name,
                                   value |-> [type |-> "String", integer |-> <<>>,
                                              string |-> <<v.s>>, boolean |-> <<>>]]>>,
                      err |-> <<>>]
            /\ v.t = "bool" =>
                  readResult.returned =
                     [value |-> <<[name |-> name,
                                   value |-> [type |-> "Boolean", integer |-> <<>>,
                                              string |-> <<>>, boolean |-> <<v.b>>]]>>,
                      err |-> <<>>]

\* the path finds the boolean false, which is returned as a set payload
C22_Witness ==
    /\ ReadCalled("getValueByJsonPath")
    /\ readResult.path.path # UnparsablePath
    /\ readObj.content[readResult.path.path] = JBool(FALSE)
    /\ readResult.returned.value # <<>>
    /\ readResult.returned.value[1].value.type = "Boolean"
    /\ readResult.returned.value[1].value.boolean = <<FALSE>>

\* the names of the built-in paths of a kind, in the order of the table
BuiltInNames(gvk) ==
    IF gvk = GVK("apps", "v1", "Deployment") THEN <<"ReadyReplicas", "Replicas", "AvailableReplicas">>
    ELSE IF gvk = GVK("batch", "v1", "Job") THEN <<"JobComplete", "JobSucceeded">>
    ELSE IF gvk = GVK("", "v1", "Pod") THEN <<"PodReady", "PodPhase">>
    ELSE <<>>

\* C23: GetValuesByRule with a CommonFields rule returns one error and no
\* value for a group/version/kind without an entry in the built-in table, and
\* for a registered kind evaluates the built-in paths of that kind, each once
\* and in the order of the table (apps/v1 Deployment: ReadyReplicas, Replicas,
\* AvailableReplicas; batch/v1 Job: JobComplete, JobSucceeded; v1 Pod:
\* PodReady, PodPhase).
C23_CommonFieldsResolution ==
    (ReadCalled("GetValuesByRule") /\ readResult.rule.type = CommonFieldsType) =>
        IF BuiltInNames(readObj.gvk) = <<>> THEN
            /\ readResult.returned.values = <<>>
            /\ Len(readResult.returned.errs) = 1
            /\ Head(Head(readResult.returned.errs))
                  = "cannot find the CommonFields statuses for resrouce with gvk "
        ELSE
            /\ Names(RuleEntries(readObj, readResult.rule)) = BuiltInNames(readObj.gvk)
            /\ Names(readResult.returned.values) = YieldedNames(readObj, readResult.rule)
            /\ Len(readResult.returned.values) + Len(readResult.returned.errs)
                  + Cardinality(AbsentEntries(readObj, readResult.rule))
                  = Len(BuiltInNames(readObj.gvk))

\* a Job whose document holds both built-in fields
C23_Witness ==
    /\ ReadCalled("GetValuesByRule")
    /\ readResult.rule.type = CommonFieldsType
    /\ readObj.gvk = JobGVK
    /\ Names(readResult.returned.values) = <<"JobComplete", "JobSucceeded">>
    /\ readResult.returned.errs = <<>>

\* the entry declares a version and it is not the version of the resource
VersionMismatch(obj, entry) == entry.version # "" /\ entry.version # obj.gvk.version

\* the error recorded for an entry that is filtered out
VersionError(entry) ==
    <<"version set in the path ", entry.name, " is not matched for the related resource">>

IsVersionError(err) == Head(err) = "version set in the path "

\* C24: in GetValuesByRule with a JSONPaths rule an entry whose declared
\* version is non-empty and differs from the version of the resource is not
\* evaluated: it contributes no value and no evaluation error, and the error
\* naming it is recorded; the other entries, those with an empty version
\* included, are evaluated in their declared order.
C24_VersionFilter ==
    (ReadCalled("GetValuesByRule") /\ readResult.rule.type = JSONPathsType) =>
        LET paths == readResult.rule.jsonPaths
            skipped == SelectSeq(paths, LAMBDA entry : VersionMismatch(readObj, entry))
            evaluated == SelectSeq(paths, LAMBDA entry : ~VersionMismatch(readObj, entry))
        IN  /\ SelectSeq(readResult.returned.errs, IsVersionError)
                  = [k \in DOMAIN skipped |-> VersionError(skipped[k])]
            /\ Names(readResult.returned.values)
                  = Names(SelectSeq(evaluated,
                                    LAMBDA entry : Held(readObj, entry.path) \in {"int64", "string", "bool"}))
            /\ Len(readResult.returned.errs) - Len(skipped)
                  = Len(SelectSeq(evaluated,
                                  LAMBDA entry : \/ entry.path = UnparsablePath
                                                 \/ Held(readObj, entry.path)
                                                       \in UnsupportedTypes \cup {"finderror"}))

\* the first entry declares another version and its path holds a map; only the
\* version error is recorded for it, and the entry after it is evaluated
C24_Witness ==
    /\ ReadCalled("GetValuesByRule")
    /\ readResult.rule.type = JSONPathsType
    /\ Len(readResult.rule.jsonPaths) = 2
    /\ VersionMismatch(readObj, readResult.rule.jsonPaths[1])
    /\ Held(readObj, readResult.rule.jsonPaths[1].path) = "map"
    /\ readResult.rule.jsonPaths[2].version = "v1"
    /\ readResult.returned.errs = <<VersionError(readResult.rule.jsonPaths[1])>>
    /\ Names(readResult.returned.values) = <<readResult.rule.jsonPaths[2].name>>

----------------------------------------------------------------------------
(* Properties of the sweep and of the condition sets (checked under Spec)  *)

\* C25: when listing the records fails in a level-triggered pass, the failure
\* is logged, no record is processed and no status write is issued in that
\* pass, and the controller is back between passes (not crashed), where the
\* next pass starts at the next interval.
C25_ListFailureSkipsPass ==
    [][(sync.pc = "idle" /\ sync' # sync /\ sync'.result = "listError") =>
          /\ sync'.errorLogged
          /\ sync'.work = NoWork /\ sync'.index = 0
          /\ sync'.attempts = 0 /\ store' = store /\ writes' = writes
          /\ sync'.pc = "idle"
      ]_vars

\* the list failed in a pass that follows an accepted write
C25_Witness ==
    /\ sync.pc = "idle"
    /\ sync.result = "listError"
    /\ sync.errorLogged
    /\ persisted.sync.version > 1

\* no two conditions of the list have the same type
NoDuplicateTypes(conditions) ==
    \A i, j \in DOMAIN conditions : conditions[i].type = conditions[j].type => i = j

\* every condition set of the status has at most one condition per type
UniqueTypes(status) ==
    /\ NoDuplicateTypes(status.conditions)
    /\ \A i \in DOMAIN status.manifestConditions :
          NoDuplicateTypes(status.manifestConditions[i].conditions)

----------------------------------------------------------------------------
(* Properties of the sweep over several records (checked under SpecSweep)  *)

\* the step of syncAllWorks that hands the record at sweep.index to syncWork
SweepStep == sweep.pc = "records" /\ sweep' # sweep

\* the candidate syncWork builds from the listed record
SweepCandidate(originalWork) ==
    syncWorkCandidate(syncWorkLoop(originalWork, SweepOutcomes(originalWork), 1, now), now)

\* how syncWork ends on the k-th listed record, told from that record and
\* from the version the hub stores for it alone
SweepResult(k) ==
    IF StatusDeepEqual(sweep.items[k].status, SweepCandidate(sweep.items[k]).status)
    THEN "nochange"
    ELSE IF works[k].resourceVersion = sweep.items[k].resourceVersion THEN "updated"
    ELSE "conflict"

\* the step processes its record on its own and the loop goes on: the pass
\* ends after the last listed record only, no other record is written, and
\* the candidate and the outcome of the write are those of this record alone
IsolatedStep ==
    LET k == sweep.index
    IN  /\ IF k < Len(sweep.items)
           THEN sweep'.pc = "records" /\ sweep'.index = k + 1 /\ sweep'.items = sweep.items
           ELSE sweep'.pc = "idle"
        /\ sweep'.result = SweepResult(k)
        /\ \A j \in DOMAIN works : j # k => works'[j] = works[j]
        /\ works'[k] = IF sweep'.result = "updated"
                       THEN Replaced(works[k], SweepCandidate(sweep.items[k]).status)
                       ELSE works[k]

\* C26: in every pass of the sweep each listed record is handed to syncWork
\* exactly once, in list order, and a failure of syncWork on one record
\* neither ends the pass nor changes the candidate or the outcome of the
\* write of any other record.
C26_RecordIsolation ==
    [][SweepStep => (sweep'.pc # "crashed" /\ IsolatedStep)]_vars

\* the entry of the manifest at ordinal i is left alone by the step: its
\* synced values and its StatusSynced condition are those that were read
ExtractionSkipped(i) == i \notin sweep'.extracted

\* C27: for a manifest whose kind has a StopSyncThreshold N > 0, once N
\* consecutive passes have left the manifest's entry unchanged, syncWork
\* reads no values for it in later passes until the manifest list of the
\* record is edited; with threshold 0 the values of every manifest that has
\* a matching manifest config are read in every pass.
C27_StopSyncThreshold ==
    [][(SweepStep /\ sweep'.pc # "crashed") =>
          LET k == sweep.index
              originalWork == sweep.items[k]
          IN  \A i \in DOMAIN originalWork.spec.manifests :
                 LET threshold == StopSyncThresholdOf(originalWork.spec.manifests[i].gvk)
                 IN  /\ (threshold > 0 /\ quietPasses[k][i] >= threshold) => ExtractionSkipped(i)
                     /\ threshold = 0 =>
                           (~ExtractionSkipped(i) <=>
                               FindManifestConfig(originalWork.spec.manifestConfigs,
                                                  originalWork.spec.manifests[i].gvk, 1) # 0)
      ]_vars

\* C28: once the process was told to shut down no new pass of the sweep is
\* started, and a pass in progress hands no further record to syncWork and
\* writes nothing more.
C28_Cancellation ==
    [][cancelled =>
          /\ ~(sweep.pc = "idle" /\ sweep'.pc = "records")
          /\ SweepStep => works' = works
      ]_vars

\* the manifest-condition identifier carries the ordinal of the manifest at
\* position i and names its resource
Identifies(identifier, i, manifest) ==
    /\ identifier.ordinal = i - 1
    /\ identifier.group = manifest.gvk.group
    /\ identifier.version = manifest.gvk.version
    /\ identifier.kind = manifest.gvk.kind
    /\ identifier.namespace = manifest.namespace
    /\ identifier.name = manifest.name

\* C30: what a pass computes for the manifest at ordinal i is written to the
\* manifest-condition entry that carries ordinal i and names the resource of
\* that manifest only: every entry an accepted write of syncWork changed
\* identifies the manifest that sits at its position in the spec the pass
\* read, also after the manifest list was edited and the status list was not
\* rebuilt.
C30_ManifestIdentity ==
    [][(SweepStep /\ sweep'.pc # "crashed" /\ sweep'.result = "updated") =>
          LET k == sweep.index
              originalWork == sweep.items[k]
          IN  \A i \in DOMAIN works'[k].status.manifestConditions :
                 works'[k].status.manifestConditions[i] # originalWork.status.manifestConditions[i]
                    => Identifies(works'[k].status.manifestConditions[i].identifier, i,
                                  originalWork.spec.manifests[i])
      ]_vars

----------------------------------------------------------------------------
(* Properties of the computed conditions (checked under Spec)              *)

\* every condition of the given type in the list carries the given observedGeneration
Stamped(conditions, type, generation) ==
    \A k \in DOMAIN conditions :
        conditions[k].type = type => conditions[k].observedGeneration = generation

\* the workload-level Available condition of the candidate carries the generation
WorkloadStamped(work) ==
    Stamped(work.status.conditions, resourceAvailableConditionType, work.generation)

\* C31: every condition a pass computes carries observedGeneration equal to
\* the generation of the record at the time of the pass: the workload-level
\* Available condition, and per manifest the Available and StatusSynced
\* conditions of the level-triggered candidate and the StatusFeedbackSynced
\* condition of the edge-triggered candidate.
C31_ObservedGeneration ==
    [][/\ (sync.pc = "update" /\ sync' # sync) =>
            LET work == syncWorkCandidate(sync.work, now)
            IN  /\ WorkloadStamped(work)
                /\ \A i \in DOMAIN work.status.manifestConditions :
                      /\ Stamped(work.status.manifestConditions[i].conditions,
                                 resourceAvailableConditionType, work.generation)
                      /\ Stamped(work.status.manifestConditions[i].conditions,
                                 statusSyncConditionType, work.generation)
       /\ (fb.pc = "update" /\ fb' # fb) =>
            \A i \in DOMAIN fb.work.status.manifestConditions :
               Stamped(fb.work.status.manifestConditions[i].conditions,
                       statusFeedbackConditionType, fb.work.generation)
      ]_vars

\* the two conditions agree in everything but the time of their last transition
SameButTime(a, b) ==
    [a EXCEPT !.lastTransitionTime = 0] = [b EXCEPT !.lastTransitionTime = 0]

\* the workload-level Available condition of the status is the aggregate of
\* the manifest conditions of that same status
SelfConsistent(generation, status) ==
    LET k == FindStatusCondition(status.conditions, resourceAvailableConditionType, 1)
    IN  /\ k # 0
        /\ SameButTime(status.conditions[k],
                       aggregateManifestConditions(generation, status.manifestConditions))

\* C32: every status an accepted write of the level-triggered pass stores is
\* internally consistent: its workload-level Available condition equals
\* aggregateManifestConditions applied to the generation of the record and to
\* the manifest conditions of that same stored status.
C32_WrittenStatusConsistent ==
    [][(sync.pc = "update" /\ sync'.result = "updated") =>
          SelfConsistent(store'.generation, store'.status)]_vars

\* the second write of the level-triggered pass was accepted after a resource
\* went missing: the stored aggregate is no longer the one that was read
C32_Witness ==
    /\ sync.pc = "idle" /\ sync.result = "updated"
    /\ persisted.sync.version = store.resourceVersion
    /\ Len(writes) >= 2
    /\ \E i \in DOMAIN spoke : spoke[i] = NotFound
    /\ \E k \in DOMAIN store.status.conditions :
          /\ store.status.conditions[k].type = resourceAvailableConditionType
          /\ store.status.conditions[k].status = ConditionFalse

----------------------------------------------------------------------------
(* Further properties of the sweep (checked under SpecSweep)               *)

\* C33: syncWork completes, returning nil or an error, for every record it
\* is handed, a record whose status holds fewer manifest-condition entries
\* than its spec holds manifests included: no step of the sweep faults.
C33_SyncWorkCompletes ==
    [][SweepStep => (sweep'.pc \in {"records", "idle"}
                     /\ sweep'.result \in {"nochange", "updated", "conflict"})]_vars

----------------------------------------------------------------------------
(* Further properties of the status reader (checked under SpecRead)        *)

\* no two values of the list have the same name
NoDuplicateNames(values) ==
    \A i, j \in DOMAIN values : values[i].name = values[j].name => i = j

\* C34: the value list getSyncValues or getFeedbackValues returns for a
\* manifest, which the pass stores in the entry of the manifest, holds at
\* most one value per name, for every rule list, several rules or paths
\* that use the same name included.
C34_ValueNamesUnique ==
    (ReadCalled("getSyncValues") \/ ReadCalled("getFeedbackValues")) =>
        NoDuplicateNames(readResult.returned.values)

----------------------------------------------------------------------------
(* Further properties of the per-manifest steps (checked under Spec)       *)

\* the triple buildAvailableStatusCondition returned has an error exactly
\* when its condition is not True and an object exactly when it is True,
\* and the condition is of type Available
BuiltCoherent(built) ==
    /\ built.condition.type = resourceAvailableConditionType
    /\ built.condition.status \in ConditionStatuses
    /\ built.err # "nil" <=> built.condition.status # ConditionTrue
    /\ built.obj # <<>> <=> built.condition.status = ConditionTrue

\* C35: whenever the level-triggered pass calls buildAvailableStatusCondition
\* for a manifest, and for every outcome the resolving and fetching of the
\* resource of a stored manifest can have, the returned error is non-nil
\* exactly when the returned condition's status is not True, the returned
\* object is non-nil exactly when the status is True, and the condition's
\* type is "Available".
C35_ErrorObjectStatusCoherent ==
    [][(sync.pc = "manifests" /\ sync' # sync /\ sync'.pc # "crashed") =>
          /\ BuiltCoherent(buildAvailableStatusCondition(
                               sync.work.spec.manifests[sync.index], spoke[sync.index]))
          /\ \A i \in DOMAIN store.spec.manifests :
                \A outcome \in SpokeStates(store.spec.manifests, i) :
                   BuiltCoherent(buildAvailableStatusCondition(store.spec.manifests[i], outcome))
      ]_vars

\* a pass went through a manifest whose resource was fetched and a manifest
\* whose fetch failed with an error other than NotFound
C35_Witness ==
    /\ sync.pc = "update" /\ sync.startEpoch = spokeChanges
    /\ spoke[1].kind = "Found" /\ spoke[2] = OtherErr
    /\ AvailableIs(sync.work.status.manifestConditions[1], ConditionTrue, "ResourceAvailable")
    /\ AvailableIs(sync.work.status.manifestConditions[2], ConditionUnknown,
                   "FetchingResourceFailed")

\* the conditions of the list whose type is not among the given ones, in order
OtherConditions(conditions, types) ==
    SelectSeq(conditions, LAMBDA c : c.type \notin types)

\* what a level-triggered pass has no business with: the spec and the
\* generation of the record, the workload conditions other than Available,
\* and per entry the identifier, the conditions other than Available and
\* StatusSynced, and the feedback values
OutsideSync(work) ==
    [spec |-> work.spec, generation |-> work.generation,
     conditions |-> OtherConditions(work.status.conditions, {resourceAvailableConditionType}),
     manifests |->
        [i \in DOMAIN work.status.manifestConditions |->
            [identifier |-> work.status.manifestConditions[i].identifier,
             conditions |-> OtherConditions(work.status.manifestConditions[i].conditions,
                                            {resourceAvailableConditionType,
                                             statusSyncConditionType}),
             statusFeedbacks |-> work.status.manifestConditions[i].statusFeedbacks]]]

\* what an edge-triggered pass has no business with: the spec and the
\* generation of the record, every workload condition, and per entry the
\* identifier, the conditions other than StatusFeedbackSynced, and the
\* synced values
OutsideFeedback(work) ==
    [spec |-> work.spec, generation |-> work.generation,
     conditions |-> work.status.conditions,
     manifests |->
        [i \in DOMAIN work.status.manifestConditions |->
            [identifier |-> work.status.manifestConditions[i].identifier,
             conditions |-> OtherConditions(work.status.manifestConditions[i].conditions,
                                            {statusFeedbackConditionType}),
             statusSync |-> work.status.manifestConditions[i].statusSync]]]

\* C36: a level-triggered pass changes only the workload-level Available
\* condition and, per manifest, the Available condition, the StatusSynced
\* condition and the synced values; an edge-triggered pass changes only, per
\* manifest, the StatusFeedbackSynced condition and the feedback values.
\* Everything else (conditions of other types, identifiers, spec) is the
\* same in the candidate as in the record the pass read, at every step of
\* the pass, and the same in the store after the write of the pass as before.
C36_Frame ==
    [][/\ InPass(sync') => OutsideSync(sync'.work) = OutsideSync(sync'.originalWork)
       /\ (sync.pc = "update" /\ sync' # sync) =>
            /\ OutsideSync(syncWorkCandidate(sync.work, now)) = OutsideSync(sync.originalWork)
            /\ OutsideSync(store') = OutsideSync(store)
       /\ InPass(fb') => OutsideFeedback(fb'.work) = OutsideFeedback(fb'.originalWork)
       /\ (fb.pc = "update" /\ fb' # fb) => OutsideFeedback(store') = OutsideFeedback(store)
      ]_vars

\* the write of an edge-triggered pass was accepted on a record that carries
\* what a level-triggered pass had stored: an entry holds synced values,
\* feedback values and the conditions of both disciplines beside Applied
C36_Witness ==
    /\ fb.pc = "idle" /\ fb.result = "updated"
    /\ persisted.fb.version = store.resourceVersion
    /\ persisted.sync.version > 1
    /\ \E i \in DOMAIN store.status.manifestConditions :
          /\ store.status.manifestConditions[i].statusSync # <<>>
          /\ store.status.manifestConditions[i].statusFeedbacks # <<>>
          /\ Len(store.status.manifestConditions[i].conditions) = 4

----------------------------------------------------------------------------
(* Scheduling of the edge-triggered passes (checked under SpecFair)        *)

\* the step ends a pass of Reconcile that had read the record
ReconcileEnds == fb.pc # "idle" /\ fb'.pc = "idle"

\* C37: every edge-triggered pass that read the record ends by scheduling
\* the next pass after the configured interval, whether a fetch failed,
\* nothing changed or a write was issued; and the record is reconciled
\* infinitely often.
C37_AlwaysRequeued ==
    /\ [][ReconcileEnds => NextPassSchedule(fb') = "afterInterval"]_vars
    /\ []<>(fb.pc # "idle")

----------------------------------------------------------------------------
(* Properties of the read of the record (checked under SpecDelete)         *)

\* the step is a call of Reconcile that ends at the read of the record
\* having fetched no resource and written nothing
EndsAtRead ==
    /\ fb'.pc = "idle" /\ fb'.index = 0 /\ fb'.work = NoWork /\ fb'.attempts = 0
    /\ store' = store /\ writes' = writes /\ persisted' = persisted

\* C38: Reconcile on a record that no longer exists returns success with no
\* requeue and performs no spoke fetch and no write; when reading the record
\* fails with any other error, Reconcile returns that error and performs no
\* spoke fetch and no write.
C38_ReadFailureEndsPass ==
    [][/\ (fb.pc = "idle" /\ fb' # fb /\ Gone /\ fb'.result # "getError") =>
            /\ fb'.result = "notFound"
            /\ EndsAtRead
            /\ fb'.err = "nil" /\ ~fb'.requeueAfter
            /\ NextPassSchedule(fb') = "none"
       /\ (fb.pc = "idle" /\ fb' # fb /\ fb'.result = "getError") =>
            /\ EndsAtRead
            /\ fb'.err = "GetErr"
      ]_vars

\* Reconcile was called for a record that was deleted after a pass had
\* stored its status
C38_Witness ==
    /\ Gone
    /\ fb.pc = "idle" /\ fb.result = "notFound"
    /\ persisted.fb.version > 1
    /\ writes # <<>>

====
